---- MODULE Spec2Model ----
(***************************************************************************)
(* Idempotent operation lifecycle, token ledger, purchase flow, session    *)
(* rotation and startup reconciliation of final_server_project.            *)
(*                                                                         *)
(* Every HTTP request runs inside one database transaction opened by       *)
(* get_db (app/database.py): the transaction commits when the handler      *)
(* returns and is rolled back when the handler raises.  The model keeps    *)
(* the committed database (rows, tokens, credits, sessions) apart from     *)
(* each request's uncommitted writes (txRow, txTok, txCredit, txSess).     *)
(* Statements follow PostgreSQL READ COMMITTED: a read sees committed data *)
(* plus the request's own writes, a write waits while another transaction  *)
(* holds an uncommitted write on the same row.  The filesystem is not      *)
(* transactional.                                                          *)
(***************************************************************************)
EXTENDS Integers, Sequences, FiniteSets, TLC

\* ---------------------------------------------------------------- bounds
NumWorkers == 2
MaxStarts == 3
NumBuyers == 3
MaxBuyStarts == 3
NumClients == 2
MaxAuthStarts == 3
MaxSessions == 2
MaxTokens == 3
MaxLifeStarts == 1
MaxCrashes == 1
MaxFeatures == 2
NumReaders == 2
MaxReadStarts == 3
MaxVersions == 2
MaxGenStarts == 3
MaxVerStarts == 3
MaxIsoStarts == 2

Max(a, b) == IF a > b THEN a ELSE b
Procs == 1..Max(Max(Max(NumWorkers, NumBuyers), NumClients), NumReaders)
Workers == 1..NumWorkers
Buyers == 1..NumBuyers
Clients == 1..NumClients
Readers == 1..NumReaders
Versions == 1..MaxVersions
ReadOwners == {1}
ReadInitTokens == {0, 3}
SessIds == 1..MaxSessions
MAX_TOKEN_GENERATION_RETRIES == 3
AuthUsers == {1}
Owners == {1, 2}
OpsOwners == {1}
FPs == {1}
Kinds == {"train", "pred"}
Results == {1, 2}
InitTokens == {5, 20}
InitStatuses == {"none", "pending", "failed", "applied"}
BuyOwners == {1}
BuyKeys == {1, 2}
BuyInitTokens == {0, 2}

\* ------------------------------------------------------ program constants
TRAINING_COST == 10
PREDICTION_COST == 5
METADATA_COST == 1
ASSIST_COST == 2
MAX_TOKENS == 1000
MAX_TOKENS_PER_PURCHASE == 100
MAX_OPEN_BALANCE == 100

Amounts == {0, 10, MAX_TOKENS_PER_PURCHASE + 1}
DebitCosts == {METADATA_COST, ASSIST_COST}

Cost(kind) == IF kind = "train" THEN TRAINING_COST ELSE PREDICTION_COST

Keys == Kinds \X Owners \X FPs
CreditKeys == Owners \X BuyKeys

VARIABLES
    rows,        \* committed operation rows: Keys -> [status, result]
    tokens,      \* committed users.tokens per owner
    tmpFile,     \* <owner, fp> -> the "<path>.tmp" artifact exists
    finalFile,   \* <owner, fp> -> the final artifact exists
    pc,          \* position of each request handler
    req,         \* the request's inputs
    txRow,       \* the request's uncommitted version of its operation row
    txTok,       \* the request's uncommitted users.tokens value
    out,         \* compute output / row read by the lookup
    ran,         \* the request started compute
    resp,        \* what the caller got
    started,     \* number of requests started so far
    debited,     \* history: committed debits per key
    applyCount,  \* history: committed pending -> applied transitions per key
    tokens0,     \* history: balance at start
    active,      \* committed users.is_active per owner
    credits,     \* committed token_credits rows: CreditKeys -> [status, open_balance]
    txCredit,    \* the request's uncommitted version of its token_credits row
    creditCount, \* history: committed credits per (owner, key)
    first,       \* history: outcome of the first completed buy_tokens per (owner, key)
    spent,       \* history: total committed debits per owner
    credited,    \* history: total committed credits per owner
    sessions,    \* committed auth_sessions rows: SessIds -> [user, cur, prev, revoked]
    expiry,      \* SessIds -> [soft, hard]: expires_at / absolute_expires_at < now
    txSess,      \* the request's row lock / uncommitted write on auth_sessions
    txActive,    \* the request's uncommitted users.is_active = false
    nextTok,     \* next value of generate_id() for refresh tokens
    nextSid,     \* next value of generate_id() for session ids
    recPc,       \* position of the startup reconciler
    recBegun,    \* the reconciler's session has a transaction begun
    recTodo,     \* rows fetched by the reconciler's last select, still to handle
    recWrites,   \* prediction rows updated in the reconciler's open transaction
    recPending0, \* history: rows that were pending when the reconciler started
    recMoved,    \* history: rows whose artifact the reconciler renamed into place
    recFound,    \* history: rows and files as the first startup found them
    crashes,     \* number of process crashes so far
    rowCount,    \* rows of the operation table per (kind, owner, fingerprint)
    txIns,       \* the request's transaction holds an uncommitted INSERT
    fpIn,        \* the two fingerprint inputs under comparison
    fpDig,       \* their digests, once computed
    dbVer,       \* max(created_at) over all trained models, 0 when there is none
    redisVer,    \* redis "models:all:version", 0 when unset
    listCached,  \* redis "models:all:list" is set
    seen,        \* redis "models:all:last_seen:{user.id}" per owner, 0 when unset
    charges,     \* history: committed read debits per <<owner, version>>
    pendingAtCall, \* history: the purchase arrived while the owner had a pending one
    overtaken,   \* history: another request restarted the row this retry waits for
    attempts,    \* token generation attempts the request has made
    txAborted,   \* the request's transaction is aborted by a failed statement
    createdAt,   \* created_at of each committed operation row (0: no row)
    clock,       \* the database clock
    txNow        \* now() of each request's transaction

genVars == <<attempts, txAborted>>
verVars == <<createdAt, clock, txNow>>
vars == <<rows, tokens, tmpFile, finalFile, pc, req, txRow, txTok, out, ran,
          resp, started, debited, applyCount, tokens0, active, credits,
          txCredit, creditCount, first, spent, credited, sessions, expiry,
          txSess, txActive, nextTok, nextSid, recPc, recBegun, recTodo,
          recWrites, recPending0, recMoved, recFound, crashes, rowCount, txIns,
          fpIn, fpDig, dbVer, redisVer, listCached, seen, charges, pendingAtCall,
          overtaken, attempts, txAborted, createdAt, clock, txNow>>

insVars == <<rowCount, txIns>>
fpVars == <<fpIn, fpDig>>
readVars == <<dbVer, redisVer, listCached, seen, charges>>

NoRow == [status |-> "none", result |-> 0]
NoWrite == [status |-> "nowrite", result |-> 0]
NoTok == 0 - 1
NoReq == [kind |-> "none", owner |-> 0, fp |-> 0, amount |-> 0]
NoCredit == [status |-> "none", open_balance |-> 0]
NoCreditWrite == [status |-> "nowrite", open_balance |-> 0]
NoSession == [user |-> 0, cur |-> 0, prev |-> 0, revoked |-> FALSE]
NoExpiry == [soft |-> FALSE, hard |-> FALSE]
NoSessWrite == [op |-> "none", sids |-> {}, tok |-> 0]
NoResp == [t |-> "none", result |-> 0, balance |-> 0]

\* ------------------------------------------------------- fingerprints
\* feature names, in lexicographic order, and JSON scalar values: the
\* number 1 and the string "1"
FeatureKeys == 1..MaxFeatures
JsonValues == {[ty |-> "int", v |-> 1], [ty |-> "str", v |-> 1]}
ModelIds == {1, 2}
FileContents == {1, 2}
Labels == {1, 2}
ModelTypes == {1, 2}
PipelineVersions == {1, 2}

\* dict[str, Any] in insertion order: items <<key, value>> with distinct keys
OrderedDicts ==
    {d \in UNION {[1..n -> FeatureKeys \X JsonValues] : n \in 0..MaxFeatures} :
        \A i, j \in DOMAIN d : i # j => d[i][1] # d[j][1]}

\* params_norm: the normalized hyper-parameters of the request
ParamDicts == {d \in OrderedDicts : Len(d) <= 1 /\ \A i \in DOMAIN d : d[i][1] = 1}

\* sorted(feats_c): strictly increasing lists of feature names
SortedFeatureLists ==
    {l \in UNION {[1..n -> FeatureKeys] : n \in 0..MaxFeatures} :
        \A i \in DOMAIN l : i < Len(l) => l[i] < l[i + 1]}

NoFpInput ==
    [kind |-> "none", model_id |-> 0, feature_values |-> <<>>, data |-> 0,
     features |-> <<>>, label |-> 0, model_type |-> 0, params |-> <<>>,
     pipeline |-> 0]
NoDigest == <<>>

PredictionInputs ==
    {[NoFpInput EXCEPT !.kind = "pred", !.model_id = m, !.feature_values = fv] :
        m \in ModelIds, fv \in OrderedDicts}

TrainingInputs ==
    {[NoFpInput EXCEPT !.kind = "train", !.data = d, !.features = fs, !.label = l,
                       !.model_type = mt, !.params = ps, !.pipeline = pv] :
        d \in FileContents, fs \in SortedFeatureLists, l \in Labels,
        mt \in ModelTypes, ps \in ParamDicts, pv \in PipelineVersions}

\* decimal text of a small number, text of a feature name
Digit(n) == <<"0", "1", "2", "3", "4", "5">>[n + 1]
Name(k) == <<"a", "b", "c", "d">>[k]

\* hashlib.sha256(...).hexdigest(): taken as collision-free on the payloads
Sha256(payload) == <<"sha256">> \o payload

\* file_sha256: digest of the file's bytes
FileSha256(content) == Sha256(<<"bytes", Digit(content)>>)

\* sorted(feature_values.items()): items ordered by key
RECURSIVE InsertItem(_, _)
InsertItem(item, items) ==
    IF items = <<>> THEN <<item>>
    ELSE IF item[1] <= Head(items)[1] THEN <<item>> \o items
    ELSE <<Head(items)>> \o InsertItem(item, Tail(items))

RECURSIVE SortedItems(_)
SortedItemsAsGiven(items) == items
SortedItems(items) ==
    IF items = <<>> THEN <<>>
    ELSE InsertItem(Head(items), SortedItems(Tail(items)))

\* json.dumps of a scalar: 1 for the number, "1" for the string
JsonScalar(x) ==
    IF x.ty = "int" THEN <<Digit(x.v)>> ELSE <<"\"", Digit(x.v), "\"">>

JsonString(k) == <<"\"", Name(k), "\"">>

\* json.dumps of a list of strings, separators (",", ":")
RECURSIVE JsonStringList(_)
JsonStringList(l) ==
    IF l = <<>> THEN <<>>
    ELSE JsonString(Head(l)) \o
         (IF Tail(l) = <<>> THEN <<>> ELSE <<",">> \o JsonStringList(Tail(l)))

\* json.dumps of a list of (key, value) tuples: [["a",1],["b","1"]]
RECURSIVE JsonItemList(_)
JsonItemList(items) ==
    IF items = <<>> THEN <<>>
    ELSE <<"[">> \o JsonString(Head(items)[1]) \o <<",">>
         \o JsonScalar(Head(items)[2]) \o <<"]">> \o
         (IF Tail(items) = <<>> THEN <<>> ELSE <<",">> \o JsonItemList(Tail(items)))

\* json.dumps of a dict with sort_keys=True: {"a":1}
RECURSIVE JsonMembers(_)
JsonMembers(items) ==
    IF items = <<>> THEN <<>>
    ELSE JsonString(Head(items)[1]) \o <<":">> \o JsonScalar(Head(items)[2]) \o
         (IF Tail(items) = <<>> THEN <<>> ELSE <<",">> \o JsonMembers(Tail(items)))

JsonDict(d) == <<"{">> \o JsonMembers(SortedItems(d)) \o <<"}">>

\* stable_json(canonical): keys in sorted order, "features" then "model_id"
StableJsonCanonical(canonical) ==
    <<"{", "\"features\"", ":", "[">> \o JsonItemList(canonical.features)
    \o <<"]", ",", "\"model_id\"", ":", Digit(canonical.model_id), "}">>

\* stable_json(parts): keys in sorted order
StableJsonPartsNoLabel(parts) ==
    <<"{", "\"data_sha256\"", ":">> \o parts.data_sha256
    \o <<",", "\"features\"", ":", "[">> \o JsonStringList(parts.features)
    \o <<"]", ",", "\"model_type\"", ":", Digit(parts.model_type)>>
    \o <<",", "\"params\"", ":">> \o JsonDict(parts.params)
    \o <<",", "\"pipeline_version\"", ":", Digit(parts.pipeline_version), "}">>
StableJsonParts(parts) ==
    <<"{", "\"data_sha256\"", ":">> \o parts.data_sha256
    \o <<",", "\"features\"", ":", "[">> \o JsonStringList(parts.features)
    \o <<"]", ",", "\"label\"", ":", Digit(parts.label)>>
    \o <<",", "\"model_type\"", ":", Digit(parts.model_type)>>
    \o <<",", "\"params\"", ":">> \o JsonDict(parts.params)
    \o <<",", "\"pipeline_version\"", ":", Digit(parts.pipeline_version), "}">>

compute_training_fingerprint(inp) ==
    Sha256(StableJsonParts(
        [data_sha256 |-> FileSha256(inp.data), features |-> inp.features,
         label |-> inp.label, model_type |-> inp.model_type,
         params |-> inp.params, pipeline_version |-> inp.pipeline]))

compute_prediction_fingerprint(model_id, feature_values) ==
    Sha256(StableJsonCanonical(
        [model_id |-> model_id, features |-> SortedItems(feature_values)]))

KeyOf(r) == <<req[r].kind, req[r].owner, req[r].fp>>
CreditKeyOf(r) == <<req[r].owner, req[r].fp>>
ReqCost(r) == IF req[r].kind \in Kinds THEN Cost(req[r].kind) ELSE req[r].amount
FileOfAnyOwner(r) == <<1, req[r].fp>>
FileOf(r) == <<req[r].owner, req[r].fp>>

\* the row as request r sees it: its own write, else the committed row
View(r) == IF txRow[r] # NoWrite THEN txRow[r] ELSE rows[KeyOf(r)]

\* another transaction holds an uncommitted write on r's operation row
RowLockedByOtherMut(r) == FALSE
RowLockedByOther(r) ==
    \E q \in Procs \ {r} : txRow[q] # NoWrite /\ KeyOf(q) = KeyOf(r)

\* another transaction holds an uncommitted write on the user row of owner o
UserLockedByOtherMut(r, o) == FALSE
UserLockedByOther(r, o) ==
    \E q \in Procs \ {r} : txTok[q] # NoTok /\ req[q].owner = o

\* ------------------------------------------------- repository primitives
\* INSERT ... ON CONFLICT (user_id, fingerprint) DO NOTHING RETURNING id
InsertConflictMut(row) == FALSE
InsertConflict(row) == row.status # "none"

\* restart_existing_row: WHERE status = failed
RestartMatchesAnyStatus(row) == row.status \in {"failed", "applied"}
RestartMatches(row) == row.status = "failed"

\* values(status=pending, metrics=None) for training, values(status=pending)
\* for predictions
RestartedRowApplied(kind, row) == [row EXCEPT !.status = "applied"]
RestartedRow(kind, row) ==
    IF kind = "train" THEN [status |-> "pending", result |-> 0]
    ELSE [status |-> "pending", result |-> row.result]

\* mark_applied: WHERE id = :id AND status = pending
MarkAppliedMatches(row) == row.status = "pending"

\* mark_failed: WHERE id = :id, values(status=failed)
MarkFailedRow(row) ==
    IF row.status = "none" THEN row ELSE [row EXCEPT !.status = "failed"]

\* CHECK (tokens >= 0 AND tokens <= 1000) on users
CkUsersTokens(t) == t >= 0 /\ t <= MAX_TOKENS

\* update_tokens: UPDATE users SET tokens = tokens - cost WHERE tokens >= cost
\* RETURNING tokens; no row -> NotEnoughTokensException
UpdateTokensDouble(bal, cost) ==
    IF bal >= cost /\ CkUsersTokens(bal - 2 * cost)
    THEN [ok |-> TRUE, balance |-> bal - 2 * cost]
    ELSE [ok |-> FALSE, balance |-> bal]
UpdateTokensUnguarded(bal, cost) == [ok |-> TRUE, balance |-> bal - cost]
UpdateTokens(bal, cost) ==
    IF bal >= cost /\ CkUsersTokens(bal - cost)
    THEN [ok |-> TRUE, balance |-> bal - cost]
    ELSE [ok |-> FALSE, balance |-> bal]

\* add_tokens: UPDATE users SET tokens = tokens + amount
\* WHERE tokens = 0 AND is_active RETURNING tokens; no row -> None
AddTokensAnyBalance(bal, isActive, amount) ==
    IF isActive /\ CkUsersTokens(bal + amount)
    THEN [ok |-> TRUE, balance |-> bal + amount]
    ELSE [ok |-> FALSE, balance |-> bal]
AddTokens(bal, isActive, amount) ==
    IF bal = 0 /\ isActive /\ CkUsersTokens(bal + amount)
    THEN [ok |-> TRUE, balance |-> bal + amount]
    ELSE [ok |-> FALSE, balance |-> bal]

\* BuyTokensRequest._validate_amount
ValidateAmount(a) == ~(a <= 0 \/ a > MAX_TOKENS_PER_PURCHASE)

\* CHECK on token_credits: applied rows carry open_balance in 1..100
CkOpenBalance(row) ==
    IF row.status = "applied"
    THEN row.open_balance >= 1 /\ row.open_balance <= MAX_OPEN_BALANCE
    ELSE row.open_balance = 0

\* ------------------------------------------------------------------ Init
InitRow(st) == IF st = "applied" THEN [status |-> st, result |-> 1]
               ELSE [status |-> st, result |-> 0]

InitOps ==
    /\ \E st \in [Keys -> InitStatuses] :
          /\ \A k \in Keys : k[2] \notin OpsOwners => st[k] = "none"
          /\ rows = [k \in Keys |-> InitRow(st[k])]
    /\ \E t \in InitTokens : tokens = [o \in Owners |-> t] /\ tokens0 = tokens
    /\ tmpFile = [f \in Owners \X FPs |-> FALSE]
    /\ finalFile = [f \in Owners \X FPs |-> rows[<<"train", f[1], f[2]>>].status = "applied"]
    /\ pc = [r \in Procs |-> "idle"]
    /\ req = [r \in Procs |-> NoReq]
    /\ txRow = [r \in Procs |-> NoWrite]
    /\ txTok = [r \in Procs |-> NoTok]
    /\ out = [r \in Procs |-> 0]
    /\ ran = [r \in Procs |-> FALSE]
    /\ resp = [r \in Procs |-> NoResp]
    /\ started = 0
    /\ debited = [k \in Keys |-> 0]
    /\ applyCount = [k \in Keys |-> 0]
    /\ active = [o \in Owners |-> TRUE]
    /\ credits = [c \in CreditKeys |-> NoCredit]
    /\ txCredit = [r \in Procs |-> NoCreditWrite]
    /\ creditCount = [c \in CreditKeys |-> 0]
    /\ first = [c \in CreditKeys |-> NoResp]
    /\ spent = [o \in Owners |-> 0]
    /\ credited = [o \in Owners |-> 0]
    /\ sessions = [s \in SessIds |-> NoSession]
    /\ expiry = [s \in SessIds |-> NoExpiry]
    /\ txSess = [r \in Procs |-> NoSessWrite]
    /\ txActive = [r \in Procs |-> FALSE]
    /\ nextTok = 1
    /\ nextSid = 1
    /\ recPc = "done"
    /\ recBegun = FALSE
    /\ recTodo = {}
    /\ recWrites = {}
    /\ recPending0 = {}
    /\ recMoved = {}
    /\ recFound = [rows |-> rows, tmp |-> tmpFile, final |-> finalFile]
    /\ crashes = 0
    /\ rowCount = [k \in Keys |-> IF rows[k].status = "none" THEN 0 ELSE 1]
    /\ txIns = [r \in Procs |-> FALSE]
    /\ pendingAtCall = [r \in Procs |-> FALSE]
    /\ overtaken = [r \in Procs |-> FALSE]
    /\ attempts = [r \in Procs |-> 0]
    /\ txAborted = [r \in Procs |-> FALSE]
    /\ createdAt = [k \in Keys |-> 0]
    /\ clock = 0
    /\ txNow = [r \in Procs |-> 0]
    /\ fpIn = [i \in 1..2 |-> NoFpInput]
    /\ fpDig = [i \in 1..2 |-> NoDigest]
    /\ dbVer = 0
    /\ redisVer = 0
    /\ listCached = FALSE
    /\ seen = [o \in Owners |-> 0]
    /\ charges = [c \in Owners \X Versions |-> 0]

\* ------------------------------------------- train_model / predict steps
fsVars == <<tmpFile, finalFile>>
dbVars == <<rows, tokens>>
histVars == <<debited, applyCount, tokens0>>
buyVars == <<active, credits, txCredit, creditCount, first, spent, credited>>
authVars == <<sessions, expiry, txSess, txActive, nextTok, nextSid>>
recVars == <<recPc, recBegun, recTodo, recWrites, recPending0, recMoved, recFound, crashes>>

\* the request arrives; a prediction first loads its model row and artifact
Start(r) ==
    /\ pc[r] = "idle"
    /\ recPc = "done"
    /\ started < MaxStarts
    /\ \E k \in Kinds, o \in OpsOwners, f \in FPs, loadOk \in BOOLEAN :
        /\ req' = [req EXCEPT ![r] = [kind |-> k, owner |-> o, fp |-> f, amount |-> 0]]
        /\ IF k = "pred" /\ ~loadOk
           THEN /\ pc' = [pc EXCEPT ![r] = "err"]
                /\ resp' = [resp EXCEPT ![r] = [NoResp EXCEPT !.t = "nomodel"]]
           ELSE /\ pc' = [pc EXCEPT ![r] = "insert"]
                /\ resp' = [resp EXCEPT ![r] = NoResp]
    /\ started' = started + 1
    /\ out' = [out EXCEPT ![r] = 0]
    /\ ran' = [ran EXCEPT ![r] = FALSE]
    /\ UNCHANGED <<verVars, genVars, pendingAtCall, overtaken, fpVars, readVars, insVars, recVars, dbVars, fsVars, txRow, txTok, histVars, buyVars, authVars>>

\* row_id = try_insert_pending(...)
TryInsertPending(r) ==
    /\ pc[r] = "insert"
    /\ ~RowLockedByOther(r)
    /\ IF InsertConflict(rows[KeyOf(r)])
       THEN /\ pc' = [pc EXCEPT ![r] = "lookup"]
            /\ UNCHANGED <<txRow, txIns>>
       ELSE /\ txRow' = [txRow EXCEPT ![r] = [status |-> "pending", result |-> 0]]
            /\ txIns' = [txIns EXCEPT ![r] = TRUE]
            /\ pc' = [pc EXCEPT ![r] = "compute"]
    /\ UNCHANGED <<verVars, genVars, pendingAtCall, overtaken, fpVars, readVars, rowCount, recVars, dbVars, fsVars, req, txTok, out, ran, resp, started, histVars, buyVars, authVars>>

\* existing = get_by_user_fingerprint(...) and the branch on its status
Lookup(r) ==
    /\ pc[r] = "lookup"
    /\ LET existing == View(r) IN
       IF existing.status \in {"none", "pending"}
       THEN /\ pc' = [pc EXCEPT ![r] = "err"]
            /\ resp' = [resp EXCEPT ![r] = [NoResp EXCEPT !.t = "conflict"]]
            /\ UNCHANGED out
       ELSE IF existing.status = "applied"
       THEN /\ pc' = [pc EXCEPT ![r] = "replay"]
            /\ out' = [out EXCEPT ![r] = existing.result]
            /\ UNCHANGED resp
       ELSE /\ pc' = [pc EXCEPT ![r] = "restart"]
            /\ UNCHANGED <<out, resp>>
    /\ UNCHANGED <<verVars, genVars, pendingAtCall, overtaken, fpVars, readVars, insVars, recVars, dbVars, fsVars, req, txRow, txTok, ran, started, histVars, buyVars, authVars>>

\* fresh_balance = get_tokens_by_id(...); return the existing row
Replay(r) ==
    /\ pc[r] = "replay"
    /\ pc' = [pc EXCEPT ![r] = "ok"]
    /\ resp' = [resp EXCEPT ![r] =
                  [t |-> "replay", result |-> out[r], balance |-> tokens[req[r].owner]]]
    /\ UNCHANGED <<verVars, genVars, pendingAtCall, overtaken, fpVars, readVars, insVars, recVars, dbVars, fsVars, req, txRow, txTok, out, ran, started, histVars, buyVars, authVars>>

\* row_id = restart_existing_row(...)
RestartExistingRow(r) ==
    /\ pc[r] = "restart"
    /\ IF RestartMatches(rows[KeyOf(r)])
       THEN /\ ~RowLockedByOther(r)
            /\ txRow' = [txRow EXCEPT ![r] = RestartedRow(req[r].kind, rows[KeyOf(r)])]
            /\ pc' = [pc EXCEPT ![r] = "compute"]
            /\ overtaken' = [q \in Procs |->
                                overtaken[q] \/ (q # r /\ pc[q] = "restart" /\ KeyOf(q) = KeyOf(r))]
            /\ UNCHANGED resp
       ELSE /\ pc' = [pc EXCEPT ![r] = "err"]
            /\ resp' = [resp EXCEPT ![r] = [NoResp EXCEPT !.t = "conflict"]]
            /\ UNCHANGED <<txRow, overtaken>>
    /\ UNCHANGED <<verVars, genVars, pendingAtCall, fpVars, readVars, insVars, recVars, dbVars, fsVars, req, txTok, out, ran, started, histVars, buyVars, authVars>>

\* the training subprocess / prediction thread is launched
ComputeStart(r) ==
    /\ pc[r] = "compute"
    /\ pc' = [pc EXCEPT ![r] = "computing"]
    /\ ran' = [ran EXCEPT ![r] = TRUE]
    /\ UNCHANGED <<verVars, genVars, pendingAtCall, overtaken, fpVars, readVars, insVars, recVars, dbVars, fsVars, req, txRow, txTok, out, resp, started, histVars, buyVars, authVars>>

\* compute returned a result (training wrote the temp artifact)
ComputeOk(r) ==
    /\ pc[r] = "computing"
    /\ \E v \in Results : out' = [out EXCEPT ![r] = v]
    /\ pc' = [pc EXCEPT ![r] = "charge"]
    /\ tmpFile' = IF req[r].kind = "train"
                  THEN [tmpFile EXCEPT ![FileOf(r)] = TRUE] ELSE tmpFile
    /\ UNCHANGED <<verVars, genVars, pendingAtCall, overtaken, fpVars, readVars, insVars, recVars, dbVars, finalFile, req, txRow, txTok, ran, resp, started, histVars, buyVars, authVars>>

\* non-zero exit, malformed metrics, timeout, exception or cancellation:
\* _fail_and_cleanup / _fail_prediction_safely, then the error is raised
ComputeFail(r) ==
    /\ pc[r] = "computing"
    /\ \E why \in {"failed", "cancelled"} :
          resp' = [resp EXCEPT ![r] = [NoResp EXCEPT !.t = why]]
    /\ txRow' = [txRow EXCEPT ![r] = MarkFailedRow(View(r))]
    /\ tmpFile' = IF req[r].kind = "train"
                  THEN [tmpFile EXCEPT ![FileOf(r)] = FALSE] ELSE tmpFile
    /\ pc' = [pc EXCEPT ![r] = "err"]
    /\ UNCHANGED <<verVars, genVars, pendingAtCall, overtaken, fpVars, readVars, insVars, recVars, dbVars, finalFile, req, txTok, out, ran, started, histVars, buyVars, authVars>>

\* balance = update_tokens(db, user.id, action.cost)
Charge(r) ==
    /\ pc[r] = "charge"
    /\ LET o == req[r].owner
           res == UpdateTokens(tokens[o], Cost(req[r].kind)) IN
       IF res.ok
       THEN /\ ~UserLockedByOther(r, o)
            /\ txTok' = [txTok EXCEPT ![r] = res.balance]
            /\ pc' = [pc EXCEPT ![r] = "apply"]
            /\ UNCHANGED <<txRow, tmpFile, resp>>
       ELSE \* NotEnoughTokensException: training cleans up, predict does not catch it
            /\ resp' = [resp EXCEPT ![r] = [NoResp EXCEPT !.t = "nofunds"]]
            /\ pc' = [pc EXCEPT ![r] = "err"]
            /\ IF req[r].kind = "train"
               THEN /\ txRow' = [txRow EXCEPT ![r] = MarkFailedRow(View(r))]
                    /\ tmpFile' = [tmpFile EXCEPT ![FileOf(r)] = FALSE]
               ELSE UNCHANGED <<txRow, tmpFile>>
            /\ UNCHANGED txTok
    /\ UNCHANGED <<verVars, genVars, pendingAtCall, overtaken, fpVars, readVars, insVars, recVars, dbVars, finalFile, req, out, ran, started, histVars, buyVars, authVars>>

\* applied = mark_applied(...); "if not applied: raise ...FailedException"
MarkApplied(r) ==
    /\ pc[r] = "apply"
    /\ IF MarkAppliedMatches(View(r))
       THEN /\ txRow' = [txRow EXCEPT ![r] = [status |-> "applied", result |-> out[r]]]
            /\ IF req[r].kind = "train"
               THEN /\ pc' = [pc EXCEPT ![r] = "publish"]
                    /\ UNCHANGED resp
               ELSE /\ pc' = [pc EXCEPT ![r] = "ok"]
                    /\ resp' = [resp EXCEPT ![r] =
                          [t |-> "charged", result |-> out[r], balance |-> txTok[r]]]
            /\ UNCHANGED tmpFile
       ELSE /\ txRow' = [txRow EXCEPT ![r] = MarkFailedRow(View(r))]
            /\ tmpFile' = IF req[r].kind = "train"
                          THEN [tmpFile EXCEPT ![FileOf(r)] = FALSE] ELSE tmpFile
            /\ resp' = [resp EXCEPT ![r] = [NoResp EXCEPT !.t = "failed"]]
            /\ pc' = [pc EXCEPT ![r] = "err"]
    /\ UNCHANGED <<verVars, genVars, pendingAtCall, overtaken, fpVars, readVars, insVars, recVars, dbVars, finalFile, req, txTok, out, ran, started, histVars, buyVars, authVars>>

\* move_temp_to_final: os.replace(tmp_path, final_path)
MoveTempToFinalKeepsTmp(files) == [files EXCEPT !.final = TRUE]
MoveTempToFinalNoRename(files) == files
MoveTempToFinal(files) == [tmp |-> FALSE, final |-> TRUE]

\* move_temp_to_final(tmp_path, final_path) succeeds
PublishOk(r) ==
    /\ pc[r] = "publish"
    /\ tmpFile[FileOf(r)]
    /\ LET moved == MoveTempToFinal([tmp |-> tmpFile[FileOf(r)],
                                     final |-> finalFile[FileOf(r)]]) IN
       /\ tmpFile' = [tmpFile EXCEPT ![FileOf(r)] = moved.tmp]
       /\ finalFile' = [finalFile EXCEPT ![FileOf(r)] = moved.final]
    /\ resp' = [resp EXCEPT ![r] =
                  [t |-> "charged", result |-> out[r], balance |-> txTok[r]]]
    /\ pc' = [pc EXCEPT ![r] = "ok"]
    /\ UNCHANGED <<verVars, genVars, pendingAtCall, overtaken, fpVars, readVars, insVars, recVars, dbVars, req, txRow, txTok, out, ran, started, histVars, buyVars, authVars>>

\* os.replace raises OSError: _fail_and_cleanup(db, row_id, tmp, final)
PublishFail(r) ==
    /\ pc[r] = "publish"
    /\ txRow' = [txRow EXCEPT ![r] = MarkFailedRow(View(r))]
    /\ tmpFile' = [tmpFile EXCEPT ![FileOf(r)] = FALSE]
    /\ finalFile' = [finalFile EXCEPT ![FileOf(r)] = FALSE]
    /\ resp' = [resp EXCEPT ![r] = [NoResp EXCEPT !.t = "failed"]]
    /\ pc' = [pc EXCEPT ![r] = "err"]
    /\ UNCHANGED <<verVars, genVars, pendingAtCall, overtaken, fpVars, readVars, insVars, recVars, dbVars, req, txTok, out, ran, started, histVars, buyVars, authVars>>

\* hash_token: sha256 of the raw token (injective on the token pool)
Hash(t) == 100 + t

\* auth_sessions after the request's write is committed
SessionsAfterTogglesRevoked(r) ==
    LET w == txSess[r] IN
    [s \in SessIds |->
        IF s \notin w.sids THEN sessions[s]
        ELSE IF w.op = "insert"
        THEN [user |-> req[r].owner, cur |-> Hash(w.tok), prev |-> 0, revoked |-> FALSE]
        ELSE IF w.op = "rotate"
        THEN [sessions[s] EXCEPT !.cur = Hash(w.tok), !.prev = Hash(req[r].fp)]
        ELSE IF w.op = "revoke"
        THEN [sessions[s] EXCEPT !.revoked = ~@]
        ELSE sessions[s]]
SessionsAfterKeepsCurrent(r) ==
    LET w == txSess[r] IN
    [s \in SessIds |->
        IF s \notin w.sids THEN sessions[s]
        ELSE IF w.op = "insert"
        THEN [user |-> req[r].owner, cur |-> Hash(w.tok), prev |-> 0, revoked |-> FALSE]
        ELSE IF w.op = "rotate"
        THEN [sessions[s] EXCEPT !.prev = Hash(w.tok)]
        ELSE IF w.op = "revoke"
        THEN [sessions[s] EXCEPT !.revoked = TRUE]
        ELSE sessions[s]]
SessionsAfter(r) ==
    LET w == txSess[r] IN
    [s \in SessIds |->
        IF s \notin w.sids THEN sessions[s]
        ELSE IF w.op = "insert"
        THEN [user |-> req[r].owner, cur |-> Hash(w.tok), prev |-> 0, revoked |-> FALSE]
        ELSE IF w.op = "rotate"
        THEN [sessions[s] EXCEPT !.cur = Hash(w.tok), !.prev = Hash(req[r].fp)]
        ELSE IF w.op = "revoke"
        THEN [sessions[s] EXCEPT !.revoked = TRUE]
        ELSE sessions[s]]

\* outcome of the first completed buy_tokens call for the request's key
FirstAfter(r) ==
    LET c == <<req[r].owner, req[r].fp>> IN
    IF req[r].kind = "buy" /\ resp[r].t \in {"bought", "mustbezero"} /\ first[c] = NoResp
    THEN [first EXCEPT ![c] = resp[r]] ELSE first

\* the handler returned: get_db leaves "async with session.begin()" -> COMMIT
Commit(r) ==
    /\ pc[r] = "ok"
    /\ LET k == KeyOf(r)
           c == <<req[r].owner, req[r].fp>>
           o == req[r].owner IN
       /\ rows' = IF txRow[r] # NoWrite THEN [rows EXCEPT ![k] = txRow[r]] ELSE rows
       /\ tokens' = IF txTok[r] # NoTok THEN [tokens EXCEPT ![o] = txTok[r]] ELSE tokens
       /\ credits' = IF txCredit[r] # NoCreditWrite
                     THEN [credits EXCEPT ![c] = txCredit[r]] ELSE credits
       /\ debited' = IF txTok[r] # NoTok /\ req[r].kind \in Kinds
                     THEN [debited EXCEPT ![k] = @ + 1] ELSE debited
       /\ applyCount' = IF txRow[r] # NoWrite /\ txRow[r].status = "applied"
                        THEN [applyCount EXCEPT ![k] = @ + 1] ELSE applyCount
       /\ creditCount' = IF txTok[r] # NoTok /\ req[r].kind = "buy"
                         THEN [creditCount EXCEPT ![c] = @ + 1] ELSE creditCount
       /\ spent' = IF txTok[r] # NoTok /\ req[r].kind # "buy"
                   THEN [spent EXCEPT ![o] = @ + ReqCost(r)] ELSE spent
       /\ credited' = IF txTok[r] # NoTok /\ req[r].kind = "buy"
                      THEN [credited EXCEPT ![o] = @ + req[r].amount] ELSE credited
       /\ rowCount' = IF txIns[r] THEN [rowCount EXCEPT ![k] = @ + 1] ELSE rowCount
       /\ charges' = IF txTok[r] # NoTok /\ req[r].kind = "read"
                     THEN [charges EXCEPT ![<<o, out[r]>>] = @ + 1] ELSE charges
    /\ txIns' = [txIns EXCEPT ![r] = FALSE]
    /\ sessions' = SessionsAfter(r)
    /\ expiry' = [s \in SessIds |->
                    IF s \in txSess[r].sids /\ txSess[r].op \in {"rotate", "insert"}
                    THEN [expiry[s] EXCEPT !.soft = FALSE] ELSE expiry[s]]
    /\ active' = IF txActive[r] THEN [active EXCEPT ![req[r].owner] = FALSE] ELSE active
    /\ first' = FirstAfter(r)
    /\ txRow' = [txRow EXCEPT ![r] = NoWrite]
    /\ txTok' = [txTok EXCEPT ![r] = NoTok]
    /\ txCredit' = [txCredit EXCEPT ![r] = NoCreditWrite]
    /\ txSess' = [txSess EXCEPT ![r] = NoSessWrite]
    /\ txActive' = [txActive EXCEPT ![r] = FALSE]
    /\ pc' = [pc EXCEPT ![r] = "idle"]
    /\ out' = [out EXCEPT ![r] = 0]
    /\ ran' = [ran EXCEPT ![r] = FALSE]
    /\ pendingAtCall' = [pendingAtCall EXCEPT ![r] = FALSE]
    /\ overtaken' = [overtaken EXCEPT ![r] = FALSE]
    /\ attempts' = [attempts EXCEPT ![r] = 0]
    /\ txAborted' = [txAborted EXCEPT ![r] = FALSE]
    /\ UNCHANGED verVars
    /\ UNCHANGED <<fpVars, dbVer, redisVer, listCached, seen, recVars, fsVars, req, resp, started, tokens0, nextTok, nextSid>>

\* the handler raised: the exception leaves session.begin() -> ROLLBACK
Rollback(r) ==
    /\ pc[r] = "err"
    /\ first' = FirstAfter(r)
    /\ txRow' = [txRow EXCEPT ![r] = NoWrite]
    /\ txTok' = [txTok EXCEPT ![r] = NoTok]
    /\ txCredit' = [txCredit EXCEPT ![r] = NoCreditWrite]
    /\ txSess' = [txSess EXCEPT ![r] = NoSessWrite]
    /\ txActive' = [txActive EXCEPT ![r] = FALSE]
    /\ pc' = [pc EXCEPT ![r] = "idle"]
    /\ out' = [out EXCEPT ![r] = 0]
    /\ ran' = [ran EXCEPT ![r] = FALSE]
    /\ txIns' = [txIns EXCEPT ![r] = FALSE]
    /\ pendingAtCall' = [pendingAtCall EXCEPT ![r] = FALSE]
    /\ overtaken' = [overtaken EXCEPT ![r] = FALSE]
    /\ attempts' = [attempts EXCEPT ![r] = 0]
    /\ txAborted' = [txAborted EXCEPT ![r] = FALSE]
    /\ UNCHANGED verVars
    /\ UNCHANGED <<fpVars, readVars, rowCount, recVars, dbVars, fsVars, req, resp, started, histVars, active, credits,
                   creditCount, spent, credited, sessions, expiry, nextTok, nextSid>>

NextOps ==
    \E r \in Workers :
        \/ Start(r)
        \/ TryInsertPending(r)
        \/ Lookup(r)
        \/ Replay(r)
        \/ RestartExistingRow(r)
        \/ ComputeStart(r)
        \/ ComputeOk(r)
        \/ ComputeFail(r)
        \/ Charge(r)
        \/ MarkApplied(r)
        \/ PublishOk(r)
        \/ PublishFail(r)
        \/ Commit(r)
        \/ Rollback(r)

Spec == InitOps /\ [][NextOps]_vars

\* ------------------------------------------------------ buy_tokens steps
\* another transaction holds an uncommitted token_credits row of owner o:
\* it blocks the unique (user_id, key) arbiter and the one-pending-per-user
\* partial unique index
CreditLockedByOtherMut(r, o) == FALSE
CreditLockedByOther(r, o) ==
    \E q \in Procs \ {r} : txCredit[q] # NoCreditWrite /\ req[q].owner = o

\* a pending ledger row of the owner exists, written by another request
OwnerHasPending(r, o) ==
    \/ \E k \in BuyKeys : credits[<<o, k>>].status = "pending"
    \/ \E q \in Procs \ {r} : txCredit[q].status = "pending" /\ req[q].owner = o

\* POST /token_credit/buy_tokens arrives; the body is validated first
BuyStart(r) ==
    /\ pc[r] = "idle"
    /\ started < MaxBuyStarts
    /\ \E o \in BuyOwners, k \in BuyKeys, a \in Amounts :
        /\ req' = [req EXCEPT ![r] = [kind |-> "buy", owner |-> o, fp |-> k, amount |-> a]]
        /\ pendingAtCall' = [pendingAtCall EXCEPT ![r] = ValidateAmount(a) /\ OwnerHasPending(r, o)]
        /\ IF ValidateAmount(a)
           THEN /\ pc' = [pc EXCEPT ![r] = "binsert"]
                /\ resp' = [resp EXCEPT ![r] = NoResp]
           ELSE /\ pc' = [pc EXCEPT ![r] = "err"]
                /\ resp' = [resp EXCEPT ![r] = [NoResp EXCEPT !.t = "invalid"]]
    /\ started' = started + 1
    /\ UNCHANGED <<verVars, genVars, overtaken, fpVars, readVars, insVars, recVars, dbVars, fsVars, txRow, txTok, out, ran, histVars, buyVars, authVars>>

\* inserted = try_insert_pending(db, user.id, key)
BuyInsert(r) ==
    /\ pc[r] = "binsert"
    /\ LET o == req[r].owner
           c == CreditKeyOf(r) IN
       /\ ~CreditLockedByOther(r, o)
       /\ IF credits[c].status # "none"
          THEN \* ON CONFLICT DO NOTHING: rowcount 0
               /\ pc' = [pc EXCEPT ![r] = "blookup"]
               /\ UNCHANGED <<txCredit, resp>>
          ELSE IF \E k2 \in BuyKeys : credits[<<o, k2>>].status = "pending"
          THEN \* ux_token_credits_one_pending_per_user: IntegrityError
               /\ pc' = [pc EXCEPT ![r] = "err"]
               /\ resp' = [resp EXCEPT ![r] = [NoResp EXCEPT !.t = "integrity"]]
               /\ UNCHANGED txCredit
          ELSE /\ txCredit' = [txCredit EXCEPT ![r] = [status |-> "pending", open_balance |-> 0]]
               /\ pc' = [pc EXCEPT ![r] = "bcredit"]
               /\ UNCHANGED resp
    /\ UNCHANGED <<verVars, genVars, pendingAtCall, overtaken, fpVars, readVars, insVars, recVars, dbVars, fsVars, req, txRow, txTok, out, ran, started, histVars,
                   active, credits, creditCount, first, spent, credited, authVars>>

\* new_balance = add_tokens(...); None -> mark_failed, BalanceMustBeZeroException
BuyCredit(r) ==
    /\ pc[r] = "bcredit"
    /\ LET o == req[r].owner
           res == AddTokens(tokens[o], active[o], req[r].amount) IN
       IF res.ok
       THEN /\ ~UserLockedByOther(r, o)
            /\ txTok' = [txTok EXCEPT ![r] = res.balance]
            /\ pc' = [pc EXCEPT ![r] = "bapply"]
            /\ UNCHANGED <<txCredit, resp>>
       ELSE /\ txCredit' = [txCredit EXCEPT ![r] = [status |-> "failed", open_balance |-> 0]]
            /\ resp' = [resp EXCEPT ![r] = [NoResp EXCEPT !.t = "mustbezero"]]
            /\ pc' = [pc EXCEPT ![r] = "err"]
            /\ UNCHANGED txTok
    /\ UNCHANGED <<verVars, genVars, pendingAtCall, overtaken, fpVars, readVars, insVars, recVars, dbVars, fsVars, req, txRow, out, ran, started, histVars,
                   active, credits, creditCount, first, spent, credited, authVars>>

\* mark_applied(db, user.id, key, new_balance); build the response
BuyApply(r) ==
    /\ pc[r] = "bapply"
    /\ LET row == [status |-> "applied", open_balance |-> txTok[r]] IN
       IF CkOpenBalance(row)
       THEN /\ txCredit' = [txCredit EXCEPT ![r] = row]
            /\ resp' = [resp EXCEPT ![r] = [t |-> "bought", result |-> 0, balance |-> txTok[r]]]
            /\ pc' = [pc EXCEPT ![r] = "ok"]
       ELSE /\ resp' = [resp EXCEPT ![r] = [NoResp EXCEPT !.t = "integrity"]]
            /\ pc' = [pc EXCEPT ![r] = "err"]
            /\ UNCHANGED txCredit
    /\ UNCHANGED <<verVars, genVars, pendingAtCall, overtaken, fpVars, readVars, insVars, recVars, dbVars, fsVars, req, txRow, txTok, out, ran, started, histVars,
                   active, credits, creditCount, first, spent, credited, authVars>>

\* info = get_by_key_status_open_balance(...) and the duplicate branch
BuyLookup(r) ==
    /\ pc[r] = "blookup"
    /\ LET info == credits[CreditKeyOf(r)] IN
       IF info.status = "applied" /\ info.open_balance # 0
       THEN /\ resp' = [resp EXCEPT ![r] =
                    [t |-> "bought", result |-> 0, balance |-> info.open_balance]]
            /\ pc' = [pc EXCEPT ![r] = "ok"]
       ELSE IF info.status = "failed"
       THEN /\ resp' = [resp EXCEPT ![r] = [NoResp EXCEPT !.t = "mustbezero"]]
            /\ pc' = [pc EXCEPT ![r] = "err"]
       ELSE /\ resp' = [resp EXCEPT ![r] = [NoResp EXCEPT !.t = "inprogress"]]
            /\ pc' = [pc EXCEPT ![r] = "err"]
    /\ UNCHANGED <<verVars, genVars, pendingAtCall, overtaken, fpVars, readVars, insVars, recVars, dbVars, fsVars, req, txRow, txTok, out, ran, started, histVars, buyVars, authVars>>

\* GET /users/all_users_tokens (metadata) or an assist request arrives and
\* reaches its update_tokens call
DebitStart(r) ==
    /\ pc[r] = "idle"
    /\ started < MaxBuyStarts
    /\ \E o \in BuyOwners, cost \in DebitCosts :
          req' = [req EXCEPT ![r] = [kind |-> "debit", owner |-> o, fp |-> 0, amount |-> cost]]
    /\ pc' = [pc EXCEPT ![r] = "dcharge"]
    /\ resp' = [resp EXCEPT ![r] = NoResp]
    /\ started' = started + 1
    /\ UNCHANGED <<verVars, genVars, pendingAtCall, overtaken, fpVars, readVars, insVars, recVars, dbVars, fsVars, txRow, txTok, out, ran, histVars, buyVars, authVars>>

\* balance = update_tokens(db, user.id, action.cost)
DebitCharge(r) ==
    /\ pc[r] = "dcharge"
    /\ LET o == req[r].owner
           res == UpdateTokens(tokens[o], req[r].amount) IN
       IF res.ok
       THEN /\ ~UserLockedByOther(r, o)
            /\ txTok' = [txTok EXCEPT ![r] = res.balance]
            /\ resp' = [resp EXCEPT ![r] = [t |-> "charged", result |-> 0, balance |-> res.balance]]
            /\ pc' = [pc EXCEPT ![r] = "ok"]
       ELSE /\ resp' = [resp EXCEPT ![r] = [NoResp EXCEPT !.t = "nofunds"]]
            /\ pc' = [pc EXCEPT ![r] = "err"]
            /\ UNCHANGED txTok
    /\ UNCHANGED <<verVars, genVars, pendingAtCall, overtaken, fpVars, readVars, insVars, recVars, dbVars, fsVars, req, txRow, out, ran, started, histVars, buyVars, authVars>>

InitBuy ==
    /\ rows = [k \in Keys |-> NoRow]
    /\ \E t \in BuyInitTokens : tokens = [o \in Owners |-> t] /\ tokens0 = tokens
    /\ tmpFile = [f \in Owners \X FPs |-> FALSE]
    /\ finalFile = [f \in Owners \X FPs |-> FALSE]
    /\ pc = [r \in Procs |-> "idle"]
    /\ req = [r \in Procs |-> NoReq]
    /\ txRow = [r \in Procs |-> NoWrite]
    /\ txTok = [r \in Procs |-> NoTok]
    /\ out = [r \in Procs |-> 0]
    /\ ran = [r \in Procs |-> FALSE]
    /\ resp = [r \in Procs |-> NoResp]
    /\ started = 0
    /\ debited = [k \in Keys |-> 0]
    /\ applyCount = [k \in Keys |-> 0]
    /\ active = [o \in Owners |-> TRUE]
    /\ credits = [c \in CreditKeys |-> NoCredit]
    /\ txCredit = [r \in Procs |-> NoCreditWrite]
    /\ creditCount = [c \in CreditKeys |-> 0]
    /\ first = [c \in CreditKeys |-> NoResp]
    /\ spent = [o \in Owners |-> 0]
    /\ credited = [o \in Owners |-> 0]
    /\ sessions = [s \in SessIds |-> NoSession]
    /\ expiry = [s \in SessIds |-> NoExpiry]
    /\ txSess = [r \in Procs |-> NoSessWrite]
    /\ txActive = [r \in Procs |-> FALSE]
    /\ nextTok = 1
    /\ nextSid = 1
    /\ recPc = "done"
    /\ recBegun = FALSE
    /\ recTodo = {}
    /\ recWrites = {}
    /\ recPending0 = {}
    /\ recMoved = {}
    /\ recFound = [rows |-> rows, tmp |-> tmpFile, final |-> finalFile]
    /\ crashes = 0
    /\ rowCount = [k \in Keys |-> IF rows[k].status = "none" THEN 0 ELSE 1]
    /\ txIns = [r \in Procs |-> FALSE]
    /\ pendingAtCall = [r \in Procs |-> FALSE]
    /\ overtaken = [r \in Procs |-> FALSE]
    /\ attempts = [r \in Procs |-> 0]
    /\ txAborted = [r \in Procs |-> FALSE]
    /\ createdAt = [k \in Keys |-> 0]
    /\ clock = 0
    /\ txNow = [r \in Procs |-> 0]
    /\ fpIn = [i \in 1..2 |-> NoFpInput]
    /\ fpDig = [i \in 1..2 |-> NoDigest]
    /\ dbVer = 0
    /\ redisVer = 0
    /\ listCached = FALSE
    /\ seen = [o \in Owners |-> 0]
    /\ charges = [c \in Owners \X Versions |-> 0]

NextBuy ==
    \E r \in Buyers :
        \/ BuyStart(r)
        \/ BuyInsert(r)
        \/ BuyCredit(r)
        \/ BuyApply(r)
        \/ BuyLookup(r)
        \/ DebitStart(r)
        \/ DebitCharge(r)
        \/ Commit(r)
        \/ Rollback(r)

SpecBuy == InitBuy /\ [][NextBuy]_vars


\* ------------------------------------------------- auth session steps
\* another transaction holds the row lock of session s (SELECT ... FOR
\* UPDATE or an uncommitted UPDATE)
SessNeverLocked(r, s) == FALSE
SessLockedByOther(r, s) ==
    \E q \in Procs : q # r /\ txSess[q].op # "insert" /\ s \in txSess[q].sids

\* sessions whose stored refresh_token_hash equals h
SessionsByHash(h) == {s \in SessIds : sessions[s].user # 0 /\ sessions[s].cur = h}

\* sessions whose stored last_token_hash equals h
SessionsByLastHash(h) == {s \in SessIds : sessions[s].user # 0 /\ sessions[s].prev = h}

\* refresh tokens whose generation is still ahead of a started request
PendingGen == Cardinality({q \in Clients : pc[q] \in {"login", "rlookup", "rgen"}})

\* the checks of rotate_refresh_token on the row found for hash h
RotateCheckNoRevoked(row, exp, userActive, h) ==
    IF ~userActive THEN "invalid"
    ELSE IF exp.soft THEN "expired"
    ELSE IF exp.hard THEN "hardexpired"
    ELSE IF row.prev = h THEN "reuse"
    ELSE "rotate"
RotateCheck(row, exp, userActive, h) ==
    IF ~userActive THEN "invalid"
    ELSE IF row.revoked THEN "revoked"
    ELSE IF exp.soft THEN "expired"
    ELSE IF exp.hard THEN "hardexpired"
    ELSE IF row.prev = h THEN "reuse"
    ELSE "rotate"

\* POST /auth/login
LoginStart(r) ==
    /\ pc[r] = "idle"
    /\ started < MaxAuthStarts
    /\ nextTok + PendingGen <= MaxTokens
    /\ nextSid + Cardinality({q \in Clients : pc[q] = "login"}) <= MaxSessions
    /\ \E u \in AuthUsers :
          req' = [req EXCEPT ![r] = [kind |-> "login", owner |-> u, fp |-> 0, amount |-> 0]]
    /\ pc' = [pc EXCEPT ![r] = "login"]
    /\ resp' = [resp EXCEPT ![r] = NoResp]
    /\ started' = started + 1
    /\ UNCHANGED <<verVars, genVars, pendingAtCall, overtaken, fpVars, readVars, insVars, recVars, dbVars, fsVars, txRow, txTok, out, ran, histVars, buyVars, authVars>>

\* issue_tokens: active user by name, then a new session row with a fresh
\* refresh token
IssueTokens(r) ==
    /\ pc[r] = "login"
    /\ IF ~active[req[r].owner]
       THEN /\ resp' = [resp EXCEPT ![r] = [t |-> "badcreds", result |-> 0, balance |-> 0]]
            /\ pc' = [pc EXCEPT ![r] = "err"]
            /\ UNCHANGED <<txSess, nextTok, nextSid>>
       ELSE /\ txSess' = [txSess EXCEPT ![r] =
                            [op |-> "insert", sids |-> {nextSid}, tok |-> nextTok]]
            /\ nextTok' = nextTok + 1
            /\ nextSid' = nextSid + 1
            /\ resp' = [resp EXCEPT ![r] = [t |-> "login", result |-> nextTok,
                                            balance |-> tokens[req[r].owner]]]
            /\ pc' = [pc EXCEPT ![r] = "ok"]
    /\ UNCHANGED <<verVars, genVars, pendingAtCall, overtaken, fpVars, readVars, insVars, recVars, dbVars, fsVars, req, txRow, txTok, out, ran, started, histVars,
                   buyVars, sessions, expiry, txActive>>

\* POST /auth/refresh presenting an issued raw token
RotStart(r) ==
    /\ pc[r] = "idle"
    /\ started < MaxAuthStarts
    /\ nextTok + PendingGen <= MaxTokens
    /\ \E t \in 1..(nextTok - 1) :
          req' = [req EXCEPT ![r] = [kind |-> "rotate", owner |-> 0, fp |-> t, amount |-> 0]]
    /\ pc' = [pc EXCEPT ![r] = "rlookup"]
    /\ resp' = [resp EXCEPT ![r] = NoResp]
    /\ started' = started + 1
    /\ UNCHANGED <<verVars, genVars, pendingAtCall, overtaken, fpVars, readVars, insVars, recVars, dbVars, fsVars, txRow, txTok, out, ran, histVars, buyVars, authVars>>

\* rotate_refresh_token up to the generation of the new token:
\* get_refresh_token (row lock) and the checks on the row; out records the
\* session whose last_token_hash is the presented hash
RotLookup(r) ==
    /\ pc[r] = "rlookup"
    /\ LET h == Hash(req[r].fp)
           found == SessionsByHash(h)
           last == SessionsByLastHash(h) IN
       /\ out' = [out EXCEPT ![r] = IF last = {} THEN 0 ELSE CHOOSE s \in last : TRUE]
       /\ IF found = {}
          THEN /\ resp' = [resp EXCEPT ![r] = [t |-> "invalid", result |-> 0, balance |-> 0]]
               /\ pc' = [pc EXCEPT ![r] = "err"]
               /\ UNCHANGED txSess
          ELSE LET s == CHOOSE x \in found : TRUE
                   c == RotateCheck(sessions[s], expiry[s], active[sessions[s].user], h) IN
               /\ ~SessLockedByOther(r, s)
               /\ txSess' = [txSess EXCEPT ![r] =
                     [op |-> IF c \in {"hardexpired", "reuse"} THEN "revoke" ELSE "lock",
                      sids |-> {s}, tok |-> 0]]
               /\ resp' = [resp EXCEPT ![r] =
                     [t |-> CASE c = "invalid" -> "invalid"
                              [] c \in {"revoked", "reuse"} -> "reused"
                              [] c \in {"expired", "hardexpired"} -> "expired"
                              [] OTHER -> "none",
                      result |-> 0, balance |-> 0]]
               /\ pc' = [pc EXCEPT ![r] = IF c = "rotate" THEN "rgen" ELSE "err"]
    /\ UNCHANGED <<verVars, genVars, pendingAtCall, overtaken, fpVars, readVars, insVars, recVars, dbVars, fsVars, req, txRow, txTok, ran, started, histVars, buyVars,
                   sessions, expiry, txActive, nextTok, nextSid>>

\* _try_generate_unique_refresh_token_with_retries(rotate=True): a fresh
\* token replaces the stored hash, the presented hash becomes last_token_hash
RotGenerate(r) ==
    /\ pc[r] = "rgen"
    /\ nextTok <= MaxTokens
    /\ txSess' = [txSess EXCEPT ![r] = [op |-> "rotate", sids |-> @.sids, tok |-> nextTok]]
    /\ nextTok' = nextTok + 1
    /\ resp' = [resp EXCEPT ![r] = [t |-> "rotated", result |-> nextTok, balance |-> 0]]
    /\ pc' = [pc EXCEPT ![r] = "ok"]
    /\ UNCHANGED <<verVars, genVars, pendingAtCall, overtaken, fpVars, readVars, insVars, recVars, dbVars, fsVars, req, txRow, txTok, out, ran, started, histVars,
                   buyVars, sessions, expiry, txActive, nextSid>>

\* POST /auth/logout of an authenticated (active) user
LogoutStart(r) ==
    /\ pc[r] = "idle"
    /\ started < MaxAuthStarts
    /\ \E u \in AuthUsers, t \in 1..(nextTok - 1) :
          /\ active[u]
          /\ req' = [req EXCEPT ![r] = [kind |-> "logout", owner |-> u, fp |-> t, amount |-> 0]]
    /\ pc' = [pc EXCEPT ![r] = "logout"]
    /\ resp' = [resp EXCEPT ![r] = NoResp]
    /\ started' = started + 1
    /\ UNCHANGED <<verVars, genVars, pendingAtCall, overtaken, fpVars, readVars, insVars, recVars, dbVars, fsVars, txRow, txTok, out, ran, histVars, buyVars, authVars>>

\* revoke_refresh_token: revoke the session found for the hash, if any
RevokeRefreshToken(r) ==
    /\ pc[r] = "logout"
    /\ LET found == SessionsByHash(Hash(req[r].fp)) IN
       IF found = {}
       THEN UNCHANGED txSess
       ELSE LET s == CHOOSE x \in found : TRUE IN
            /\ ~SessLockedByOther(r, s)
            /\ txSess' = [txSess EXCEPT ![r] = [op |-> "revoke", sids |-> {s}, tok |-> 0]]
    /\ resp' = [resp EXCEPT ![r] = [t |-> "loggedout", result |-> 0, balance |-> 0]]
    /\ pc' = [pc EXCEPT ![r] = "ok"]
    /\ UNCHANGED <<verVars, genVars, pendingAtCall, overtaken, fpVars, readVars, insVars, recVars, dbVars, fsVars, req, txRow, txTok, out, ran, started, histVars,
                   buyVars, sessions, expiry, txActive, nextTok, nextSid>>

\* DELETE /users/me of an authenticated (active) user, confirmation given
DeleteStart(r) ==
    /\ pc[r] = "idle"
    /\ started < MaxAuthStarts
    /\ \E u \in AuthUsers :
          /\ active[u]
          /\ req' = [req EXCEPT ![r] = [kind |-> "delete", owner |-> u, fp |-> 0, amount |-> 0]]
    /\ pc' = [pc EXCEPT ![r] = "ddelete"]
    /\ resp' = [resp EXCEPT ![r] = NoResp]
    /\ started' = started + 1
    /\ UNCHANGED <<verVars, genVars, pendingAtCall, overtaken, fpVars, readVars, insVars, recVars, dbVars, fsVars, txRow, txTok, out, ran, histVars, buyVars, authVars>>

\* UserRepo.delete_user: UPDATE users SET is_active = false WHERE is_active
DeleteUser(r) ==
    /\ pc[r] = "ddelete"
    /\ LET o == req[r].owner IN
       /\ ~(\E q \in Procs : q # r /\ req[q].owner = o /\ txActive[q])
       /\ IF active[o]
          THEN /\ txActive' = [txActive EXCEPT ![r] = TRUE]
               /\ pc' = [pc EXCEPT ![r] = "drevoke"]
               /\ UNCHANGED resp
          ELSE /\ resp' = [resp EXCEPT ![r] =
                              [t |-> "alreadydeleted", result |-> 0, balance |-> 0]]
               /\ pc' = [pc EXCEPT ![r] = "err"]
               /\ UNCHANGED txActive
    /\ UNCHANGED <<verVars, genVars, pendingAtCall, overtaken, fpVars, readVars, insVars, recVars, dbVars, fsVars, req, txRow, txTok, out, ran, started, histVars,
                   buyVars, sessions, expiry, txSess, nextTok, nextSid>>

\* revoke_all_session_by_user: UPDATE auth_sessions SET revoked WHERE user_id
RevokeAllSessionByUser(r) ==
    /\ pc[r] = "drevoke"
    /\ LET mine == {s \in SessIds : sessions[s].user = req[r].owner} IN
       /\ \A s \in mine : ~SessLockedByOther(r, s)
       /\ txSess' = [txSess EXCEPT ![r] = [op |-> "revoke", sids |-> mine, tok |-> 0]]
    /\ resp' = [resp EXCEPT ![r] = [t |-> "deleted", result |-> 0, balance |-> 0]]
    /\ pc' = [pc EXCEPT ![r] = "ok"]
    /\ UNCHANGED <<verVars, genVars, pendingAtCall, overtaken, fpVars, readVars, insVars, recVars, dbVars, fsVars, req, txRow, txTok, out, ran, started, histVars,
                   buyVars, sessions, expiry, txActive, nextTok, nextSid>>

\* the clock passes expires_at of session s
ExpireSoft(s) ==
    /\ sessions[s].user # 0
    /\ ~expiry[s].soft
    /\ expiry' = [expiry EXCEPT ![s].soft = TRUE]
    /\ UNCHANGED <<verVars, genVars, pendingAtCall, overtaken, fpVars, readVars, insVars, recVars, dbVars, fsVars, pc, req, txRow, txTok, out, ran, resp, started,
                   histVars, buyVars, sessions, txSess, txActive, nextTok, nextSid>>

\* the clock passes absolute_expires_at of session s
ExpireHard(s) ==
    /\ sessions[s].user # 0
    /\ ~expiry[s].hard
    /\ expiry' = [expiry EXCEPT ![s].hard = TRUE]
    /\ UNCHANGED <<verVars, genVars, pendingAtCall, overtaken, fpVars, readVars, insVars, recVars, dbVars, fsVars, pc, req, txRow, txTok, out, ran, resp, started,
                   histVars, buyVars, sessions, txSess, txActive, nextTok, nextSid>>

InitAuth ==
    /\ InitBuy
    /\ tokens = [o \in Owners |-> 0]

NextAuth ==
    \/ \E r \in Clients :
          \/ LoginStart(r)
          \/ IssueTokens(r)
          \/ RotStart(r)
          \/ RotLookup(r)
          \/ RotGenerate(r)
          \/ LogoutStart(r)
          \/ RevokeRefreshToken(r)
          \/ DeleteStart(r)
          \/ DeleteUser(r)
          \/ RevokeAllSessionByUser(r)
          \/ Commit(r)
          \/ Rollback(r)
    \/ \E s \in SessIds : ExpireSoft(s) \/ ExpireHard(s)

SpecAuth == InitAuth /\ [][NextAuth]_vars


\* ---------------------------------------------------- startup reconciler
TrainKeys == {k \in Keys : k[1] = "train"}
PredKeys == {k \in Keys : k[1] = "pred"}

\* mark_failed_safely: "async with db.begin()" on a session whose
\* transaction is already begun raises InvalidRequestError, which
\* suppress(Exception) swallows; otherwise mark_failed in its own transaction
MarkFailedSafelyOwnTx(begun, row) == MarkFailedRow(row)
MarkFailedSafely(begun, row) == IF begun THEN row ELSE MarkFailedRow(row)

\* on_startup, reconcile_trained_models_on_startup: select the applied rows
RecSelectApplied ==
    /\ recPc = "start"
    /\ recBegun' = TRUE
    /\ recTodo' = {k \in TrainKeys : rows[k].status = "applied"}
    /\ recPc' = "applied"
    /\ UNCHANGED <<verVars, genVars, pendingAtCall, overtaken, fpVars, readVars, insVars, recWrites, recPending0, recMoved, recFound, crashes, dbVars, fsVars, pc, req,
                   txRow, txTok, out, ran, resp, started, histVars, buyVars, authVars>>

\* finish_publish_or_fail on an applied row and its two paths; moveOk is
\* the outcome of os.replace when only the temp file exists
FinishPublishOrFailNoCleanup(row, files, moveOk, begun) ==
    IF files.final
    THEN [row |-> row, files |-> files, moved |-> FALSE]
    ELSE IF files.tmp
    THEN IF moveOk
         THEN [row |-> row, files |-> MoveTempToFinal(files), moved |-> TRUE]
         ELSE [row |-> MarkFailedSafely(begun, row), files |-> files, moved |-> FALSE]
    ELSE [row |-> MarkFailedSafely(begun, row), files |-> files, moved |-> FALSE]
FinishPublishOrFail(row, files, moveOk, begun) ==
    IF files.final
    THEN [row |-> row, files |-> files, moved |-> FALSE]
    ELSE IF files.tmp
    THEN IF moveOk
         THEN [row |-> row, files |-> MoveTempToFinal(files), moved |-> TRUE]
         ELSE [row |-> MarkFailedSafely(begun, row),
               files |-> [tmp |-> FALSE, final |-> FALSE], moved |-> FALSE]
    ELSE [row |-> MarkFailedSafely(begun, row), files |-> files, moved |-> FALSE]

\* the loop body of reconcile_trained_models_on_startup over applied rows
RecFinishPublishOrFail(k, moveOk) ==
    /\ recPc = "applied"
    /\ k \in recTodo
    /\ LET f == <<k[2], k[3]>>
           res == FinishPublishOrFail(rows[k], [tmp |-> tmpFile[f], final |-> finalFile[f]],
                                      moveOk, recBegun) IN
       /\ rows' = [rows EXCEPT ![k] = res.row]
       /\ tmpFile' = [tmpFile EXCEPT ![f] = res.files.tmp]
       /\ finalFile' = [finalFile EXCEPT ![f] = res.files.final]
       /\ recMoved' = IF res.moved THEN recMoved \cup {k} ELSE recMoved
    /\ recTodo' = recTodo \ {k}
    /\ UNCHANGED <<verVars, genVars, pendingAtCall, overtaken, fpVars, readVars, insVars, recPc, recBegun, recWrites, recPending0, recFound, crashes, tokens, pc, req,
                   txRow, txTok, out, ran, resp, started, histVars, buyVars, authVars>>

\* reconcile_trained_models_on_startup: select the pending rows
RecSelectPending ==
    /\ recPc = "applied"
    /\ recTodo = {}
    /\ recTodo' = {k \in TrainKeys : rows[k].status = "pending"}
    /\ recPc' = "pending"
    /\ UNCHANGED <<verVars, genVars, pendingAtCall, overtaken, fpVars, readVars, insVars, recBegun, recWrites, recPending0, recMoved, recFound, crashes, dbVars, fsVars, pc, req,
                   txRow, txTok, out, ran, resp, started, histVars, buyVars, authVars>>

\* fail_pending_and_clean_tmp on one pending row
RecFailPendingAndCleanTmp(k) ==
    /\ recPc = "pending"
    /\ k \in recTodo
    /\ rows' = [rows EXCEPT ![k] = MarkFailedSafely(recBegun, @)]
    /\ tmpFile' = [tmpFile EXCEPT ![<<k[2], k[3]>>] = FALSE]
    /\ recTodo' = recTodo \ {k}
    /\ UNCHANGED <<verVars, genVars, pendingAtCall, overtaken, fpVars, readVars, insVars, recPc, recBegun, recWrites, recPending0, recMoved, recFound, crashes, tokens, finalFile, pc, req,
                   txRow, txTok, out, ran, resp, started, histVars, buyVars, authVars>>

\* reconcile_predictions_on_startup: UPDATE predictions SET status = failed
\* WHERE status = pending, inside the session's open transaction
RecPredictions ==
    /\ recPc = "pending"
    /\ recTodo = {}
    /\ recBegun' = TRUE
    /\ recWrites' = {k \in PredKeys : rows[k].status = "pending"}
    /\ recPc' = "close"
    /\ UNCHANGED <<verVars, genVars, pendingAtCall, overtaken, fpVars, readVars, insVars, recTodo, recPending0, recMoved, recFound, crashes, dbVars, fsVars, pc, req,
                   txRow, txTok, out, ran, resp, started, histVars, buyVars, authVars>>

\* leaving "async with SessionLocal() as db" closes the session; nothing
\* committed it, so its open transaction is rolled back
RecClose ==
    /\ recPc = "close"
    /\ recWrites' = {}
    /\ recBegun' = FALSE
    /\ recPc' = "done"
    /\ UNCHANGED <<verVars, genVars, pendingAtCall, overtaken, fpVars, readVars, insVars, recTodo, recPending0, recMoved, recFound, crashes, dbVars, fsVars, pc, req,
                   txRow, txTok, out, ran, resp, started, histVars, buyVars, authVars>>

\* the database and the model directory as the starting process finds them
InitRec ==
    /\ \E st \in [Keys -> InitStatuses] : rows = [k \in Keys |-> InitRow(st[k])]
    /\ tmpFile \in [Owners \X FPs -> BOOLEAN]
    /\ finalFile \in [Owners \X FPs -> BOOLEAN]
    /\ tokens = [o \in Owners |-> 0] /\ tokens0 = tokens
    /\ pc = [r \in Procs |-> "idle"]
    /\ req = [r \in Procs |-> NoReq]
    /\ txRow = [r \in Procs |-> NoWrite]
    /\ txTok = [r \in Procs |-> NoTok]
    /\ out = [r \in Procs |-> 0]
    /\ ran = [r \in Procs |-> FALSE]
    /\ resp = [r \in Procs |-> NoResp]
    /\ started = 0
    /\ debited = [k \in Keys |-> 0]
    /\ applyCount = [k \in Keys |-> 0]
    /\ active = [o \in Owners |-> TRUE]
    /\ credits = [c \in CreditKeys |-> NoCredit]
    /\ txCredit = [r \in Procs |-> NoCreditWrite]
    /\ creditCount = [c \in CreditKeys |-> 0]
    /\ first = [c \in CreditKeys |-> NoResp]
    /\ spent = [o \in Owners |-> 0]
    /\ credited = [o \in Owners |-> 0]
    /\ sessions = [s \in SessIds |-> NoSession]
    /\ expiry = [s \in SessIds |-> NoExpiry]
    /\ txSess = [r \in Procs |-> NoSessWrite]
    /\ txActive = [r \in Procs |-> FALSE]
    /\ nextTok = 1
    /\ nextSid = 1
    /\ recPc = "start"
    /\ recBegun = FALSE
    /\ recTodo = {}
    /\ recWrites = {}
    /\ recPending0 = {k \in Keys : rows[k].status = "pending"}
    /\ recMoved = {}
    /\ recFound = [rows |-> rows, tmp |-> tmpFile, final |-> finalFile]
    /\ crashes = 0
    /\ rowCount = [k \in Keys |-> IF rows[k].status = "none" THEN 0 ELSE 1]
    /\ txIns = [r \in Procs |-> FALSE]
    /\ pendingAtCall = [r \in Procs |-> FALSE]
    /\ overtaken = [r \in Procs |-> FALSE]
    /\ attempts = [r \in Procs |-> 0]
    /\ txAborted = [r \in Procs |-> FALSE]
    /\ createdAt = [k \in Keys |-> 0]
    /\ clock = 0
    /\ txNow = [r \in Procs |-> 0]
    /\ fpIn = [i \in 1..2 |-> NoFpInput]
    /\ fpDig = [i \in 1..2 |-> NoDigest]
    /\ dbVer = 0
    /\ redisVer = 0
    /\ listCached = FALSE
    /\ seen = [o \in Owners |-> 0]
    /\ charges = [c \in Owners \X Versions |-> 0]

NextRec ==
    \/ RecSelectApplied
    \/ \E k \in TrainKeys, moveOk \in BOOLEAN : RecFinishPublishOrFail(k, moveOk)
    \/ RecSelectPending
    \/ \E k \in TrainKeys : RecFailPendingAndCleanTmp(k)
    \/ RecPredictions
    \/ RecClose

SpecRec == InitRec /\ [][NextRec]_vars


\* ------------------------------------------- process lifetime with a crash
\* the process dies: every open transaction is lost with its connection,
\* the files stay; a training subprocess that was running may have left
\* its temp artifact.  The process is started again and reconciles.
Crash ==
    /\ crashes < MaxCrashes
    /\ recPc = "done"
    /\ LET running == {FileOf(r) : r \in {q \in Workers :
                                            pc[q] = "computing" /\ req[q].kind = "train"}} IN
       \E left \in SUBSET running :
           tmpFile' = [f \in Owners \X FPs |-> tmpFile[f] \/ f \in left]
    /\ pc' = [r \in Procs |-> "idle"]
    /\ resp' = [r \in Procs |-> IF pc[r] = "idle" THEN resp[r] ELSE NoResp]
    /\ txRow' = [r \in Procs |-> NoWrite]
    /\ txTok' = [r \in Procs |-> NoTok]
    /\ out' = [r \in Procs |-> 0]
    /\ ran' = [r \in Procs |-> FALSE]
    /\ crashes' = crashes + 1
    /\ recPc' = "start"
    /\ recPending0' = {k \in Keys : rows[k].status = "pending"}
    /\ recMoved' = {}
    /\ txIns' = [r \in Procs |-> FALSE]
    /\ pendingAtCall' = [q \in Procs |-> FALSE]
    /\ overtaken' = [q \in Procs |-> FALSE]
    /\ attempts' = [q \in Procs |-> 0]
    /\ txAborted' = [q \in Procs |-> FALSE]
    /\ UNCHANGED verVars
    /\ UNCHANGED <<fpVars, readVars, rowCount, recBegun, recTodo, recWrites, recFound, dbVars, finalFile, req,
                   started, histVars, buyVars, authVars>>

\* a training or prediction request arrives at the running process and
\* is served by the lowest free request slot
LifeStart(r) ==
    /\ started < MaxLifeStarts
    /\ \A q \in Workers : q < r => pc[q] # "idle"
    /\ Start(r)

\* the first startup: rows and artifacts of the one owner as found
InitLife ==
    /\ \E st \in [Keys -> InitStatuses] :
          /\ \A k \in Keys : k[2] \notin OpsOwners => st[k] = "none"
          /\ rows = [k \in Keys |-> InitRow(st[k])]
    /\ tmpFile \in [Owners \X FPs -> BOOLEAN]
    /\ finalFile \in [Owners \X FPs -> BOOLEAN]
    /\ \A f \in Owners \X FPs : f[1] \notin OpsOwners => ~tmpFile[f] /\ ~finalFile[f]
    /\ \E t \in InitTokens : tokens = [o \in Owners |-> t] /\ tokens0 = tokens
    /\ pc = [r \in Procs |-> "idle"]
    /\ req = [r \in Procs |-> NoReq]
    /\ txRow = [r \in Procs |-> NoWrite]
    /\ txTok = [r \in Procs |-> NoTok]
    /\ out = [r \in Procs |-> 0]
    /\ ran = [r \in Procs |-> FALSE]
    /\ resp = [r \in Procs |-> NoResp]
    /\ started = 0
    /\ debited = [k \in Keys |-> 0]
    /\ applyCount = [k \in Keys |-> 0]
    /\ active = [o \in Owners |-> TRUE]
    /\ credits = [c \in CreditKeys |-> NoCredit]
    /\ txCredit = [r \in Procs |-> NoCreditWrite]
    /\ creditCount = [c \in CreditKeys |-> 0]
    /\ first = [c \in CreditKeys |-> NoResp]
    /\ spent = [o \in Owners |-> 0]
    /\ credited = [o \in Owners |-> 0]
    /\ sessions = [s \in SessIds |-> NoSession]
    /\ expiry = [s \in SessIds |-> NoExpiry]
    /\ txSess = [r \in Procs |-> NoSessWrite]
    /\ txActive = [r \in Procs |-> FALSE]
    /\ nextTok = 1
    /\ nextSid = 1
    /\ recPc = "start"
    /\ recBegun = FALSE
    /\ recTodo = {}
    /\ recWrites = {}
    /\ recPending0 = {k \in Keys : rows[k].status = "pending"}
    /\ recMoved = {}
    /\ recFound = [rows |-> rows, tmp |-> tmpFile, final |-> finalFile]
    /\ crashes = 0
    /\ rowCount = [k \in Keys |-> IF rows[k].status = "none" THEN 0 ELSE 1]
    /\ txIns = [r \in Procs |-> FALSE]
    /\ pendingAtCall = [r \in Procs |-> FALSE]
    /\ overtaken = [r \in Procs |-> FALSE]
    /\ attempts = [r \in Procs |-> 0]
    /\ txAborted = [r \in Procs |-> FALSE]
    /\ createdAt = [k \in Keys |-> 0]
    /\ clock = 0
    /\ txNow = [r \in Procs |-> 0]
    /\ fpIn = [i \in 1..2 |-> NoFpInput]
    /\ fpDig = [i \in 1..2 |-> NoDigest]
    /\ dbVer = 0
    /\ redisVer = 0
    /\ listCached = FALSE
    /\ seen = [o \in Owners |-> 0]
    /\ charges = [c \in Owners \X Versions |-> 0]

NextLife ==
    \/ \E r \in Workers :
          \/ LifeStart(r)
          \/ TryInsertPending(r)
          \/ Lookup(r)
          \/ Replay(r)
          \/ RestartExistingRow(r)
          \/ ComputeStart(r)
          \/ ComputeOk(r)
          \/ ComputeFail(r)
          \/ Charge(r)
          \/ MarkApplied(r)
          \/ PublishOk(r)
          \/ PublishFail(r)
          \/ Commit(r)
          \/ Rollback(r)
    \/ Crash
    \/ RecSelectApplied
    \/ \E k \in TrainKeys, moveOk \in BOOLEAN : RecFinishPublishOrFail(k, moveOk)
    \/ RecSelectPending
    \/ \E k \in TrainKeys : RecFailPendingAndCleanTmp(k)
    \/ RecPredictions
    \/ RecClose

SpecLife == InitLife /\ [][NextLife]_vars


\* ------------------------------------------- fingerprint computations
\* train_model: fp = compute_training_fingerprint(...) for input i
ComputeTrainingFingerprint(i) ==
    /\ fpIn[i].kind = "train"
    /\ fpDig[i] = NoDigest
    /\ fpDig' = [fpDig EXCEPT ![i] = compute_training_fingerprint(fpIn[i])]
    /\ UNCHANGED <<verVars, genVars, pendingAtCall, overtaken, insVars, recVars, dbVars, fsVars, pc, req, txRow, txTok, out, ran, resp, started,
                   histVars, buyVars, authVars, readVars, fpIn>>

\* predict: fp = compute_prediction_fingerprint(model_id, feature_values)
ComputePredictionFingerprint(i) ==
    /\ fpIn[i].kind = "pred"
    /\ fpDig[i] = NoDigest
    /\ fpDig' = [fpDig EXCEPT ![i] =
                    compute_prediction_fingerprint(fpIn[i].model_id,
                                                   fpIn[i].feature_values)]
    /\ UNCHANGED <<verVars, genVars, pendingAtCall, overtaken, insVars, recVars, dbVars, fsVars, pc, req, txRow, txTok, out, ran, resp, started,
                   histVars, buyVars, authVars, readVars, fpIn>>

\* two requests of the same endpoint with any inputs
InitFp ==
    /\ fpIn \in [1..2 -> PredictionInputs \cup TrainingInputs]
    /\ fpIn[1].kind = fpIn[2].kind
    /\ fpDig = [i \in 1..2 |-> NoDigest]
    /\ tokens = [o \in Owners |-> 0]
    /\ tokens0 = tokens
    /\ dbVer = 0
    /\ redisVer = 0
    /\ listCached = FALSE
    /\ seen = [o \in Owners |-> 0]
    /\ charges = [c \in Owners \X Versions |-> 0]
    /\ rows = [k \in Keys |-> NoRow]
    /\ tmpFile = [f \in Owners \X FPs |-> FALSE]
    /\ finalFile = [f \in Owners \X FPs |-> FALSE]
    /\ pc = [r \in Procs |-> "idle"]
    /\ req = [r \in Procs |-> NoReq]
    /\ txRow = [r \in Procs |-> NoWrite]
    /\ txTok = [r \in Procs |-> NoTok]
    /\ out = [r \in Procs |-> 0]
    /\ ran = [r \in Procs |-> FALSE]
    /\ resp = [r \in Procs |-> NoResp]
    /\ started = 0
    /\ debited = [k \in Keys |-> 0]
    /\ applyCount = [k \in Keys |-> 0]
    /\ active = [o \in Owners |-> TRUE]
    /\ credits = [c \in CreditKeys |-> NoCredit]
    /\ txCredit = [r \in Procs |-> NoCreditWrite]
    /\ creditCount = [c \in CreditKeys |-> 0]
    /\ first = [c \in CreditKeys |-> NoResp]
    /\ spent = [o \in Owners |-> 0]
    /\ credited = [o \in Owners |-> 0]
    /\ sessions = [s \in SessIds |-> NoSession]
    /\ expiry = [s \in SessIds |-> NoExpiry]
    /\ txSess = [r \in Procs |-> NoSessWrite]
    /\ txActive = [r \in Procs |-> FALSE]
    /\ nextTok = 1
    /\ nextSid = 1
    /\ recPc = "done"
    /\ recBegun = FALSE
    /\ recTodo = {}
    /\ recWrites = {}
    /\ recPending0 = {}
    /\ recMoved = {}
    /\ recFound = [rows |-> rows, tmp |-> tmpFile, final |-> finalFile]
    /\ crashes = 0
    /\ rowCount = [k \in Keys |-> 0]
    /\ txIns = [r \in Procs |-> FALSE]
    /\ pendingAtCall = [r \in Procs |-> FALSE]
    /\ overtaken = [r \in Procs |-> FALSE]
    /\ attempts = [r \in Procs |-> 0]
    /\ txAborted = [r \in Procs |-> FALSE]
    /\ createdAt = [k \in Keys |-> 0]
    /\ clock = 0
    /\ txNow = [r \in Procs |-> 0]

NextFp ==
    \E i \in 1..2 :
        \/ ComputeTrainingFingerprint(i)
        \/ ComputePredictionFingerprint(i)

SpecFp == InitFp /\ [][NextFp]_vars

\* ------------------------------------------- version-gated read billing
\* another request changes the set of models: max(created_at) moves on and
\* invalidate_global_models_cache sets the version key and drops the list
NewVersion ==
    /\ dbVer < MaxVersions
    /\ dbVer' = dbVer + 1
    /\ redisVer' = dbVer + 1
    /\ listCached' = FALSE
    /\ UNCHANGED <<verVars, genVars, pendingAtCall, overtaken, insVars, recVars, dbVars, fsVars, pc, req, txRow, txTok, out, ran, resp, started,
                   histVars, buyVars, authVars, fpVars, seen, charges>>

\* GET /all_users_models arrives
ReadStart(r) ==
    /\ pc[r] = "idle"
    /\ started < MaxReadStarts
    /\ \E o \in ReadOwners :
          req' = [req EXCEPT ![r] = [kind |-> "read", owner |-> o, fp |-> 0,
                                     amount |-> METADATA_COST]]
    /\ pc' = [pc EXCEPT ![r] = "rdver"]
    /\ resp' = [resp EXCEPT ![r] = NoResp]
    /\ started' = started + 1
    /\ UNCHANGED <<verVars, genVars, pendingAtCall, overtaken, insVars, recVars, dbVars, fsVars, txRow, txTok, out, ran,
                   histVars, buyVars, authVars, fpVars, readVars>>

\* db_ver = get_latest_created_at_all_users; the list and version cache
ReadVersion(r) ==
    /\ pc[r] = "rdver"
    /\ IF dbVer = 0
       THEN /\ resp' = [resp EXCEPT ![r] = [t |-> "notcharged", result |-> 0,
                                            balance |-> tokens[req[r].owner]]]
            /\ pc' = [pc EXCEPT ![r] = "ok"]
            /\ UNCHANGED <<out, redisVer, listCached>>
       ELSE /\ out' = [out EXCEPT ![r] = dbVer]
            /\ redisVer' = dbVer
            /\ listCached' = TRUE
            /\ pc' = [pc EXCEPT ![r] = "rdmarker"]
            /\ UNCHANGED resp
    /\ UNCHANGED <<verVars, genVars, pendingAtCall, overtaken, insVars, recVars, dbVars, fsVars, req, txRow, txTok, ran, started,
                   histVars, buyVars, authVars, fpVars, dbVer, seen, charges>>

\* user_seen_ver = get_version(redis, user_seen_key) and the comparison
MarkerMatches(marker, db_ver) == marker = db_ver

ReadMarker(r) ==
    /\ pc[r] = "rdmarker"
    /\ IF MarkerMatches(seen[req[r].owner], out[r])
       THEN /\ resp' = [resp EXCEPT ![r] = [t |-> "notcharged", result |-> 0,
                                            balance |-> tokens[req[r].owner]]]
            /\ pc' = [pc EXCEPT ![r] = "ok"]
       ELSE /\ pc' = [pc EXCEPT ![r] = "rdcharge"]
            /\ UNCHANGED resp
    /\ UNCHANGED <<verVars, genVars, pendingAtCall, overtaken, insVars, recVars, dbVars, fsVars, req, txRow, txTok, out, ran, started,
                   histVars, buyVars, authVars, fpVars, readVars>>

\* the same step with the marker written before the debit is attempted
ReadChargeMarkerFirst(r) ==
    /\ pc[r] = "rdcharge"
    /\ LET o == req[r].owner
           res == UpdateTokens(tokens[o], req[r].amount) IN
       IF res.ok
       THEN /\ ~UserLockedByOther(r, o)
            /\ txTok' = [txTok EXCEPT ![r] = res.balance]
            /\ pc' = [pc EXCEPT ![r] = "rdset"]
            /\ UNCHANGED <<resp, seen>>
       ELSE /\ resp' = [resp EXCEPT ![r] = [NoResp EXCEPT !.t = "nofunds"]]
            /\ pc' = [pc EXCEPT ![r] = "err"]
            /\ seen' = [seen EXCEPT ![o] = out[r]]
            /\ UNCHANGED txTok
    /\ UNCHANGED <<verVars, genVars, pendingAtCall, overtaken, insVars, recVars, dbVars, fsVars, req, txRow, out, ran, started,
                   histVars, buyVars, authVars, fpVars, dbVer, redisVer, listCached, charges>>

\* balance = update_tokens(db, user.id, action.cost)
ReadCharge(r) ==
    /\ pc[r] = "rdcharge"
    /\ LET o == req[r].owner
           res == UpdateTokens(tokens[o], req[r].amount) IN
       IF res.ok
       THEN /\ ~UserLockedByOther(r, o)
            /\ txTok' = [txTok EXCEPT ![r] = res.balance]
            /\ pc' = [pc EXCEPT ![r] = "rdset"]
            /\ UNCHANGED resp
       ELSE /\ resp' = [resp EXCEPT ![r] = [NoResp EXCEPT !.t = "nofunds"]]
            /\ pc' = [pc EXCEPT ![r] = "err"]
            /\ UNCHANGED txTok
    /\ UNCHANGED <<verVars, genVars, pendingAtCall, overtaken, insVars, recVars, dbVars, fsVars, req, txRow, out, ran, started,
                   histVars, buyVars, authVars, fpVars, readVars>>

\* set_version(redis, user_seen_key, db_ver); return charged
ReadSetMarker(r) ==
    /\ pc[r] = "rdset"
    /\ seen' = [seen EXCEPT ![req[r].owner] = out[r]]
    /\ resp' = [resp EXCEPT ![r] = [t |-> "charged", result |-> 0, balance |-> txTok[r]]]
    /\ pc' = [pc EXCEPT ![r] = "ok"]
    /\ UNCHANGED <<verVars, genVars, pendingAtCall, overtaken, insVars, recVars, dbVars, fsVars, req, txRow, txTok, out, ran, started,
                   histVars, buyVars, authVars, fpVars, dbVer, redisVer, listCached, charges>>

InitRead ==
    /\ fpIn = [i \in 1..2 |-> NoFpInput]
    /\ fpDig = [i \in 1..2 |-> NoDigest]
    /\ \E t \in ReadInitTokens : tokens = [o \in Owners |-> t] /\ tokens0 = tokens
    /\ dbVer \in {0, 1}
    /\ redisVer = 0
    /\ listCached = FALSE
    /\ seen = [o \in Owners |-> 0]
    /\ charges = [c \in Owners \X Versions |-> 0]
    /\ rows = [k \in Keys |-> NoRow]
    /\ tmpFile = [f \in Owners \X FPs |-> FALSE]
    /\ finalFile = [f \in Owners \X FPs |-> FALSE]
    /\ pc = [r \in Procs |-> "idle"]
    /\ req = [r \in Procs |-> NoReq]
    /\ txRow = [r \in Procs |-> NoWrite]
    /\ txTok = [r \in Procs |-> NoTok]
    /\ out = [r \in Procs |-> 0]
    /\ ran = [r \in Procs |-> FALSE]
    /\ resp = [r \in Procs |-> NoResp]
    /\ started = 0
    /\ debited = [k \in Keys |-> 0]
    /\ applyCount = [k \in Keys |-> 0]
    /\ active = [o \in Owners |-> TRUE]
    /\ credits = [c \in CreditKeys |-> NoCredit]
    /\ txCredit = [r \in Procs |-> NoCreditWrite]
    /\ creditCount = [c \in CreditKeys |-> 0]
    /\ first = [c \in CreditKeys |-> NoResp]
    /\ spent = [o \in Owners |-> 0]
    /\ credited = [o \in Owners |-> 0]
    /\ sessions = [s \in SessIds |-> NoSession]
    /\ expiry = [s \in SessIds |-> NoExpiry]
    /\ txSess = [r \in Procs |-> NoSessWrite]
    /\ txActive = [r \in Procs |-> FALSE]
    /\ nextTok = 1
    /\ nextSid = 1
    /\ recPc = "done"
    /\ recBegun = FALSE
    /\ recTodo = {}
    /\ recWrites = {}
    /\ recPending0 = {}
    /\ recMoved = {}
    /\ recFound = [rows |-> rows, tmp |-> tmpFile, final |-> finalFile]
    /\ crashes = 0
    /\ rowCount = [k \in Keys |-> 0]
    /\ txIns = [r \in Procs |-> FALSE]
    /\ pendingAtCall = [r \in Procs |-> FALSE]
    /\ overtaken = [r \in Procs |-> FALSE]
    /\ attempts = [r \in Procs |-> 0]
    /\ txAborted = [r \in Procs |-> FALSE]
    /\ createdAt = [k \in Keys |-> 0]
    /\ clock = 0
    /\ txNow = [r \in Procs |-> 0]

NextRead ==
    \/ NewVersion
    \/ \E r \in Readers :
          \/ ReadStart(r)
          \/ ReadVersion(r)
          \/ ReadMarker(r)
          \/ ReadCharge(r)
          \/ ReadSetMarker(r)
          \/ Commit(r)
          \/ Rollback(r)

SpecRead == InitRead /\ [][NextRead]_vars


TypeOK ==
    /\ \A k \in Keys : rows[k].status \in {"none", "pending", "applied", "failed"}
    /\ \A o \in Owners : tokens[o] \in Int
    /\ \A k \in Keys : rowCount[k] \in Nat
    /\ \A r \in Procs : txIns[r] \in BOOLEAN
    /\ \A r \in Procs : pendingAtCall[r] \in BOOLEAN
    /\ \A r \in Procs : overtaken[r] \in BOOLEAN
    /\ \A r \in Procs : attempts[r] \in 0..MAX_TOKEN_GENERATION_RETRIES
    /\ \A r \in Procs : txAborted[r] \in BOOLEAN
    /\ clock \in Nat
    /\ \A k \in Keys : createdAt[k] \in 0..clock
    /\ \A r \in Procs : txNow[r] \in 0..clock

\* ------------------------------------------------------------ properties
RECURSIVE SumOver(_, _)
SumOver(S, f) == IF S = {} THEN 0
                 ELSE LET x == CHOOSE y \in S : TRUE IN f[x] + SumOver(S \ {x}, f)

Success(r) == resp[r].t \in {"charged", "replay"}

\* C1: a submission made after the same (owner, fingerprint) was applied
\* gets the stored result, runs no compute, writes nothing (row and balance
\* untouched); all successful responses for one key carry the same result
\* and the key is debited at most once.
C1_IdempotentReplay ==
    /\ \A r \in Procs :
          (pc[r] = "ok" /\ resp[r].t = "replay") =>
             /\ rows[KeyOf(r)].status = "applied"
             /\ resp[r].result = rows[KeyOf(r)].result
             /\ ~ran[r]
             /\ txRow[r] = NoWrite
             /\ txTok[r] = NoTok
    /\ \A r, q \in Procs :
          (Success(r) /\ Success(q) /\ KeyOf(r) = KeyOf(q)) =>
             resp[r].result = resp[q].result
    /\ \A k \in Keys : debited[k] <= 1

C1_Witness ==
    \E r, q \in Procs :
        /\ r # q
        /\ KeyOf(r) = KeyOf(q)
        /\ pc[q] = "idle" /\ resp[q].t = "charged"
        /\ pc[r] = "ok" /\ resp[r].t = "replay"
        /\ debited[KeyOf(r)] = 1
        /\ tokens[req[r].owner] = tokens0[req[r].owner] - Cost(req[r].kind)

\* C2: concurrent submissions of one (owner, fingerprint): at most one of
\* them holds the row at any time, at most one debit for the key exists
\* (committed or in flight), a caller that did not become the worker ends
\* with the in-progress conflict or the applied result, and a committed
\* success leaves the single row applied.
DebitsInFlight(k) == Cardinality({r \in Procs : txTok[r] # NoTok /\ KeyOf(r) = k})

OwnerKeys(o) == {k \in Keys : k[2] = o}
AppliedCost == [k \in Keys |-> Cost(k[1]) * applyCount[k]]

C3_ChargeApplyAtomic ==
    /\ \A o \in Owners :
          tokens0[o] - tokens[o] = SumOver(OwnerKeys(o), AppliedCost)
    /\ \A k \in Keys : debited[k] = applyCount[k]
    /\ \A r \in Procs :
          pc[r] = "ok" => (txTok[r] # NoTok <=> txRow[r].status = "applied")

C3_Witness ==
    \E k \in Keys, r \in Procs :
        /\ applyCount[k] = 1 /\ debited[k] = 1
        /\ rows[k].status = "applied"
        /\ tokens[k[2]] < tokens0[k[2]]
        /\ pc[r] = "err" /\ txTok[r] # NoTok

\* C4: buy_tokens called once by every concurrent caller with the same key
\* and amount 10 from balance 0: when all have completed the balance is 10
\* and every caller was answered with balance 10.
C4Request == [kind |-> "buy", owner |-> 1, fp |-> 1, amount |-> 10]

C4Scenario ==
    /\ tokens0[1] = 0
    /\ started = NumBuyers
    /\ \A r \in Buyers : pc[r] = "idle" /\ req[r] = C4Request

C4_PurchaseReplay ==
    C4Scenario =>
        /\ tokens[1] = 10
        /\ \A r \in Buyers : resp[r].t = "bought" /\ resp[r].balance = 10

C4_Witness ==
    /\ C4Scenario
    /\ tokens[1] = 10
    /\ creditCount[<<1, 1>>] = 1
    /\ \A r \in Buyers : resp[r].balance = 10

\* C5: for a fixed (owner, key) at most one credit is ever applied and
\* every completed buy_tokens call observes the outcome of the first
\* completed call (the same balance or the same policy violation).
C5_PurchaseIdempotent ==
    /\ \A c \in CreditKeys : creditCount[c] <= 1
    /\ \A r \in Buyers :
          (/\ req[r].kind = "buy"
           /\ pc[r] = "idle"
           /\ resp[r].t \in {"bought", "mustbezero", "inprogress"}
           /\ first[CreditKeyOf(r)] # NoResp)
          => resp[r] = first[CreditKeyOf(r)]

\* C8: every balance, committed or written by a transaction in flight,
\* stays within 0..MAX_TOKENS.
C8_BalanceBounds ==
    /\ \A o \in Owners : tokens[o] >= 0 /\ tokens[o] <= MAX_TOKENS
    /\ \A r \in Procs : txTok[r] # NoTok => txTok[r] >= 0 /\ txTok[r] <= MAX_TOKENS

C8_Witness ==
    \E o \in Owners :
        credited[o] > 0 /\ spent[o] > 0 /\ spent[o] = tokens0[o] /\ tokens[o] = credited[o]

\* C9: a debit below cost fails with the insufficient-funds error and
\* changes nothing; a credit is written only when the balance is exactly 0,
\* otherwise nothing is credited; debits are never lost or doubled, so two
\* debits that together exceed the balance cannot both be kept.
Conservation ==
    \A o \in Owners :
        tokens[o] = tokens0[o] - spent[o] + credited[o] /\ tokens[o] >= 0

DebitStep(r) ==
    (pc[r] \in {"charge", "dcharge"} /\ pc'[r] # pc[r]
       /\ tokens[req[r].owner] < ReqCost(r)) =>
        /\ pc'[r] = "err"
        /\ resp'[r].t = "nofunds"
        /\ txTok'[r] = NoTok
        /\ tokens' = tokens

CreditStep(r) ==
    (pc[r] = "bcredit" /\ pc'[r] # pc[r]) =>
        /\ txTok'[r] # NoTok => tokens[req[r].owner] = 0
        /\ tokens[req[r].owner] # 0 =>
              (txTok'[r] = NoTok /\ resp'[r].t = "mustbezero" /\ tokens' = tokens)

C9_LedgerGuards ==
    /\ []Conservation
    /\ [][\A r \in Procs : DebitStep(r) /\ CreditStep(r)]_vars

C9_Witness ==
    \E r, q \in Buyers :
        /\ r # q
        /\ req[r].kind = "debit" /\ req[q].kind = "debit"
        /\ pc[q] = "idle" /\ resp[q].t = "charged"
        /\ pc[r] = "err" /\ resp[r].t = "nofunds"
        /\ req[r].amount <= tokens0[req[r].owner]
        /\ spent[req[r].owner] = req[q].amount
\* C6: a rotation that presents a token the session has already rotated
\* away from (its hash is the stored last_token_hash) ends rejected, and
\* when it ends the session is revoked.
C6_ReuseDetection ==
    [][\A r \in Procs :
          (req[r].kind = "rotate" /\ out[r] # 0 /\ pc[r] \in {"ok", "err"}
             /\ pc'[r] = "idle") =>
              /\ pc[r] = "err"
              /\ sessions'[out[r]].revoked]_vars

\* C7: the stored hashes of a revoked session never change, and a rotation
\* that presents the current token of a revoked session is rejected
\* without a new token being generated.
C7_RevokedStaysUnusable ==
    [][/\ \A s \in SessIds :
            sessions[s].revoked =>
               /\ sessions'[s].revoked
               /\ sessions'[s].cur = sessions[s].cur
               /\ sessions'[s].prev = sessions[s].prev
       /\ \A r \in Procs :
            (/\ pc[r] = "rlookup" /\ pc'[r] # "rlookup"
             /\ \E s \in SessionsByHash(Hash(req[r].fp)) : sessions[s].revoked) =>
               /\ pc'[r] = "err"
               /\ resp'[r].t \in {"reused", "invalid"}
               /\ nextTok' = nextTok
               /\ txSess'[r].op = "lock"]_vars

C7_Witness ==
    \E r \in Procs, s \in SessIds :
        /\ sessions[s].revoked
        /\ req[r].kind = "rotate"
        /\ sessions[s].cur = Hash(req[r].fp)
        /\ pc[r] = "idle"
        /\ resp[r].t = "reused"

\* C10: when the startup reconciler has finished, every row that was
\* pending at startup (trained model or prediction) is failed in the
\* database, and no temp artifact of such a trained-model row remains.
C10_CrashRecovery ==
    recPc = "done" =>
        \A k \in recPending0 :
            /\ rows[k].status = "failed"
            /\ k[1] = "train" => ~tmpFile[<<k[2], k[3]>>]

\* C11: a training row found applied with only its temp artifact, whose
\* rename succeeded, ends the reconciliation with the final artifact
\* present, the temp file gone and the row still applied.
C11_UnpublishedApplied ==
    recPc = "done" =>
        \A k \in recMoved :
            /\ finalFile[<<k[2], k[3]>>]
            /\ ~tmpFile[<<k[2], k[3]>>]
            /\ rows[k].status = "applied"

C11_Witness ==
    /\ recPc = "done"
    /\ \E k \in recMoved :
          /\ recFound.rows[k].status = "applied"
          /\ recFound.tmp[<<k[2], k[3]>>]
          /\ ~recFound.final[<<k[2], k[3]>>]
          /\ finalFile[<<k[2], k[3]>>]

\* C12: a training row found applied with neither the final nor the temp
\* artifact ends the reconciliation failed.
C12_AppliedWithoutArtifact ==
    recPc = "done" =>
        \A k \in TrainKeys :
            (/\ recFound.rows[k].status = "applied"
             /\ ~recFound.tmp[<<k[2], k[3]>>]
             /\ ~recFound.final[<<k[2], k[3]>>]) =>
                rows[k].status = "failed"

\* C13: once the reconciler has finished after a crash and no request is
\* in flight, no row that the first startup found in a consistent state
\* is pending, and every such applied training row has its final artifact.
FoundConsistent(k) ==
    /\ recFound.rows[k].status # "pending"
    /\ (k[1] = "train" /\ recFound.rows[k].status = "applied")
          => recFound.final[<<k[2], k[3]>>]

C13_PostReconciliation ==
    (recPc = "done" /\ crashes > 0 /\ \A r \in Workers : pc[r] = "idle") =>
        \A k \in Keys :
            FoundConsistent(k) =>
                /\ rows[k].status # "pending"
                /\ (k[1] = "train" /\ rows[k].status = "applied")
                      => finalFile[<<k[2], k[3]>>]

C13_Witness ==
    /\ recPc = "done" /\ crashes > 0
    /\ \A r \in Workers : pc[r] = "idle"
    /\ \E r \in Workers :
          /\ req[r].kind = "train" /\ resp[r] = NoResp
          /\ FoundConsistent(KeyOf(r))
          /\ recFound.rows[KeyOf(r)].status = "none"
          /\ tmpFile[FileOf(r)] /\ ~recFound.tmp[FileOf(r)]
          /\ rows[KeyOf(r)].status = "none"

RowsOf(k) ==
    rowCount[k] + Cardinality({r \in Workers : txIns[r] /\ KeyOf(r) = k})

C15_RowUniqueness ==
    /\ [](\A k \in Keys :
             /\ RowsOf(k) <= 1
             /\ rows[k].status # "none" => rowCount[k] = 1)
    /\ [][\A r \in Workers :
             /\ (pc[r] = "insert" /\ txIns'[r])
                   => (rows[KeyOf(r)].status = "none" /\ RowsOf(KeyOf(r)) = 0)
             /\ (pc[r] = "insert" /\ rows[KeyOf(r)].status # "none")
                   => (~txIns'[r] /\ txRow'[r] = NoWrite)
             /\ (pc[r] = "restart" /\ pc'[r] = "compute")
                   => (~txIns'[r] /\ RowsOf(KeyOf(r))' = 1 /\ rowCount' = rowCount)]_vars

C15_Witness ==
    \E r \in Workers : \E q \in Workers \ {r} :
        /\ KeyOf(r) = KeyOf(q)
        /\ pc[r] = "computing" /\ ~txIns[r] /\ txRow[r].status = "pending"
        /\ rowCount[KeyOf(r)] = 1
        /\ pc[q] = "insert"
        /\ \E k \in Keys : applyCount[k] = 1 /\ recFound.rows[k].status = "none"

C17_NoRowPendingForever ==
    [][/\ \A r \in Workers :
             (/\ pc[r] \in {"ok", "err"} /\ pc'[r] = "idle"
              /\ txRow[r] # NoWrite /\ crashes' = crashes)
                => rows'[KeyOf(r)].status \in {"applied", "failed"}
       /\ (recPc = "close" /\ recPc' = "done" /\ crashes > 0)
             => \A k \in Keys : rows'[k].status # "pending"]_vars

\* C18: the two fingerprint functions depend on the logical input only.
\* Two prediction inputs with the same model id and the same feature
\* key/value pairs, in whatever key order, get the same digest, and two
\* training inputs with the same data bytes, sorted features, label,
\* model type, normalized params and pipeline version get the same
\* digest; inputs that differ in any of these get different digests.
SameLogicalInput(a, b) ==
    /\ a.kind = b.kind
    /\ a.model_id = b.model_id
    /\ {a.feature_values[i] : i \in DOMAIN a.feature_values}
          = {b.feature_values[i] : i \in DOMAIN b.feature_values}
    /\ a.data = b.data /\ a.features = b.features /\ a.label = b.label
    /\ a.model_type = b.model_type /\ a.pipeline = b.pipeline
    /\ {a.params[i] : i \in DOMAIN a.params} = {b.params[i] : i \in DOMAIN b.params}

C18_FingerprintDeterminism ==
    (fpDig[1] # NoDigest /\ fpDig[2] # NoDigest) =>
        (SameLogicalInput(fpIn[1], fpIn[2]) <=> fpDig[1] = fpDig[2])

C18_Witness ==
    /\ fpIn[1].kind = "pred"
    /\ Len(fpIn[1].feature_values) = MaxFeatures
    /\ fpIn[1].feature_values # fpIn[2].feature_values
    /\ SameLogicalInput(fpIn[1], fpIn[2])
    /\ fpDig[1] # NoDigest /\ fpDig[1] = fpDig[2]

\* C19: over any sequence or interleaving of reads of the global list by
\* one owner, the owner is debited the metadata cost at most once per
\* dataset version; a read that finds its last-seen marker equal to the
\* version is not charged, and a read that finds it different is charged
\* once and sets the marker to that version.
C19_VersionGatedBilling ==
    /\ [](\A o \in Owners : \A v \in Versions : charges[<<o, v>>] <= 1)
    /\ [][\A r \in Readers :
             /\ (pc[r] = "rdmarker" /\ pc'[r] # "rdmarker"
                    /\ seen[req[r].owner] = out[r])
                   => (pc'[r] = "ok" /\ resp'[r].t = "notcharged" /\ txTok'[r] = NoTok)
             /\ (pc[r] = "rdset" /\ pc'[r] = "ok")
                   => (seen'[req[r].owner] = out[r]
                       /\ txTok[r] = tokens[req[r].owner] - METADATA_COST)]_vars

\* C20: a row never goes from failed directly to applied. A transaction
\* writes status applied only onto a row it sees as pending, the first
\* write a transaction makes to a failed row is the restart that sets it
\* pending, and a committed row becomes applied only by the commit of
\* such a transaction.
C20_FailedNeverDirectlyApplied ==
    [][/\ \A r \in Workers :
             /\ (txRow'[r].status = "applied" /\ txRow[r].status # "applied")
                   => (View(r).status = "pending" /\ pc[r] = "apply")
             /\ (txRow[r] = NoWrite /\ txRow'[r] # NoWrite
                    /\ rows[KeyOf(r)].status = "failed")
                   => (txRow'[r].status = "pending" /\ pc[r] = "restart")
       /\ \A k \in Keys :
             (rows[k].status # "applied" /\ rows'[k].status = "applied")
                => \E r \in Workers :
                      /\ pc[r] = "ok" /\ pc'[r] = "idle" /\ KeyOf(r) = k
                      /\ txRow[r].status = "applied"]_vars

C20_Witness ==
    \E k \in Keys :
        /\ recFound.rows[k].status = "failed"
        /\ rows[k].status = "applied"
        /\ applyCount[k] = 1

\* C21: when compute succeeded and the owner's balance is below the cost,
\* the training or prediction request fails with the insufficient-funds
\* error, its row is marked failed, the temp artifact is removed and the
\* balance is unchanged; once the request has ended the row is failed.
C21_InsufficientBalance ==
    [][\A r \in Workers :
          /\ (pc[r] = "charge" /\ pc'[r] = "err")
                => /\ resp'[r].t = "nofunds"
                   /\ View(r)'.status = "failed"
                   /\ ~tmpFile'[FileOf(r)]
                   /\ txTok'[r] = NoTok
          /\ (pc[r] = "err" /\ resp[r].t = "nofunds" /\ pc'[r] = "idle")
                => /\ rows'[KeyOf(r)].status = "failed"
                   /\ tokens' = tokens]_vars

\* C22: when compute fails (non-zero exit, malformed metrics, timeout,
\* exception) or the request is cancelled during compute, the row is
\* marked failed, the training temp artifact is removed, no tokens are
\* debited and the failure or cancellation reaches the caller; once the
\* request has ended the row is failed.
C22_ComputeFailure ==
    [][\A r \in Workers :
          /\ (pc[r] = "computing" /\ pc'[r] = "err")
                => /\ resp'[r].t \in {"failed", "cancelled"}
                   /\ View(r)'.status = "failed"
                   /\ ~tmpFile'[FileOf(r)]
                   /\ txTok'[r] = NoTok
          /\ (/\ pc[r] = "err" /\ resp[r].t \in {"failed", "cancelled"}
              /\ txTok[r] = NoTok /\ pc'[r] = "idle")
                => /\ rows'[KeyOf(r)].status = "failed"
                   /\ tokens' = tokens]_vars

\* C23: a row a request marked failed on its error path is written
\* independently of the request's main transaction: when the request has
\* ended with its error, the row is failed in the database, whatever
\* happens to the main transaction, and the caller gets the original error.
C23_IndependentMarkFailed ==
    [][\A r \in Workers :
          (pc[r] = "err" /\ txRow[r].status = "failed" /\ pc'[r] = "idle")
             => /\ rows'[KeyOf(r)].status = "failed"
                /\ resp'[r] = resp[r]
                /\ resp[r].t \in {"failed", "cancelled", "nofunds"}]_vars

\* C24: in every state, crash points included, a final artifact that the
\* program itself put in place exists only if the training row of its
\* (owner, fingerprint) is applied, in the database or at least in the
\* live transaction that is publishing it.
C24_PublishAfterApplied ==
    \A f \in Owners \X FPs :
        (finalFile[f] /\ ~recFound.final[f]) =>
            \/ rows[<<"train", f[1], f[2]>>].status = "applied"
            \/ \E r \in Workers :
                  /\ KeyOf(r) = <<"train", f[1], f[2]>>
                  /\ txRow[r].status = "applied"

\* C25: when a training row was charged and applied and the rename of the
\* temp artifact to the final one then fails, the row is marked failed and
\* both files are removed; once the request has ended the row is failed
\* and the owner's balance is lower by the training cost.
C25_PublishFailureNoRefund ==
    [][\A r \in Workers :
          /\ (pc[r] = "publish" /\ pc'[r] = "err")
                => /\ View(r)'.status = "failed"
                   /\ ~tmpFile'[FileOf(r)] /\ ~finalFile'[FileOf(r)]
                   /\ txTok'[r] = tokens[req[r].owner] - TRAINING_COST
          /\ (/\ pc[r] = "err" /\ req[r].kind = "train" /\ txTok[r] # NoTok
              /\ txRow[r].status = "failed" /\ pc'[r] = "idle")
                => /\ rows'[KeyOf(r)].status = "failed"
                   /\ tokens'[req[r].owner] = tokens[req[r].owner] - TRAINING_COST]_vars

\* C26: when a buy_tokens call ends with the policy violation, the ledger
\* row of its (owner, key) is failed afterwards; and every later call with
\* a key whose first call ended with the policy violation ends with the
\* policy violation and credits nothing.
C26_FailedPurchaseReplay ==
    [][\A r \in Buyers :
          (req[r].kind = "buy" /\ pc[r] \in {"ok", "err"} /\ pc'[r] = "idle") =>
             /\ resp[r].t = "mustbezero"
                   => credits'[CreditKeyOf(r)].status = "failed"
             /\ first[CreditKeyOf(r)].t = "mustbezero"
                   => (resp[r].t = "mustbezero" /\ txTok[r] = NoTok)]_vars

\* C27: an owner never has more than one pending purchase row, and a
\* buy_tokens call that arrives while another purchase of the owner is
\* pending, under the same or another key, inserts nothing, credits
\* nothing and ends with PurchaseInProgressException.
PendingPurchases(o) ==
    Cardinality({k \in BuyKeys : credits[<<o, k>>].status = "pending"})
    + Cardinality({q \in Procs : txCredit[q].status = "pending" /\ req[q].owner = o})

C27_OnePendingPurchase ==
    /\ [](\A o \in Owners : PendingPurchases(o) <= 1)
    /\ [][\A r \in Buyers :
             (/\ req[r].kind = "buy" /\ pendingAtCall[r]
              /\ pc[r] \in {"ok", "err"} /\ pc'[r] = "idle")
                => /\ resp[r].t = "inprogress"
                   /\ txTok[r] = NoTok
                   /\ txCredit[r] = NoCreditWrite]_vars

C29_HardExpiryRevokes ==
    [][\A r \in Clients : \A s \in SessIds :
          /\ (/\ pc[r] = "rlookup" /\ pc'[r] # "rlookup"
              /\ s \in SessionsByHash(Hash(req[r].fp))
              /\ active[sessions[s].user] /\ ~sessions[s].revoked
              /\ expiry[s].hard)
                => /\ pc'[r] = "err" /\ resp'[r].t = "expired"
                   /\ txSess'[r].op = "revoke"
          /\ (/\ req[r].kind = "rotate" /\ pc[r] = "err" /\ pc'[r] = "idle"
              /\ resp[r].t = "expired" /\ s \in txSess[r].sids
              /\ expiry[s].hard)
                => sessions'[s].revoked]_vars

\* the session is usable for the presented hash h: found by its current
\* hash, owner active, not revoked, neither expiry passed
Usable(s, h) ==
    /\ s \in SessionsByHash(h)
    /\ active[sessions[s].user] /\ ~sessions[s].revoked
    /\ ~expiry[s].soft /\ ~expiry[s].hard

\* C30: a rotation that presents the current token of a usable session goes
\* on to generate a token; when it commits, the session's current hash is
\* the hash of the returned token, which no session had before, the
\* previous hash is the presented one, the sliding expiry is not passed,
\* revoked and the absolute expiry are unchanged and the presented hash is
\* no session's current hash; a token that was issued and is no session's
\* current hash never becomes one again, and a rotation that presents
\* such a token is rejected as invalid and writes nothing.
C30_SuccessfulRotation ==
    [][\A r \in Clients :
          /\ \A s \in SessIds :
               /\ (pc[r] = "rlookup" /\ pc'[r] # "rlookup" /\ Usable(s, Hash(req[r].fp)))
                     => pc'[r] = "rgen"
               /\ (/\ req[r].kind = "rotate" /\ pc[r] = "ok" /\ pc'[r] = "idle"
                   /\ s \in txSess[r].sids)
                     => /\ resp[r].t = "rotated" /\ resp'[r] = resp[r]
                        /\ sessions[s].cur = Hash(req[r].fp)
                        /\ sessions'[s].cur = Hash(resp[r].result)
                        /\ \A x \in SessIds : /\ sessions[x].cur # Hash(resp[r].result)
                                              /\ sessions[x].prev # Hash(resp[r].result)
                        /\ sessions'[s].prev = Hash(req[r].fp)
                        /\ SessionsByHash(Hash(req[r].fp))' = {}
                        /\ ~expiry'[s].soft
                        /\ expiry'[s].hard = expiry[s].hard
                        /\ sessions'[s].revoked = sessions[s].revoked
                        /\ sessions'[s].user = sessions[s].user
          /\ (/\ pc[r] = "rlookup" /\ pc'[r] # "rlookup"
              /\ SessionsByHash(Hash(req[r].fp)) = {})
                => /\ pc'[r] = "err" /\ resp'[r].t = "invalid"
                   /\ txSess'[r] = txSess[r]
          /\ \A t \in 1..MaxTokens :
               (/\ t < nextTok /\ SessionsByHash(Hash(t)) = {}
                /\ \A q \in Procs : txSess[q].tok # t)
                  => SessionsByHash(Hash(t))' = {}]_vars

C30_Witness ==
    \E r \in Clients : \E q \in Clients \ {r}, s \in SessIds :
        /\ req[r].kind = "rotate" /\ pc[r] = "idle" /\ resp[r].t = "rotated"
        /\ sessions[s].prev = Hash(req[r].fp)
        /\ sessions[s].cur = Hash(resp[r].result)
        /\ ~sessions[s].revoked
        /\ req[q].kind = "rotate" /\ req[q].fp = req[r].fp
        /\ pc[q] = "err" /\ resp[q].t = "invalid"

\* C31: of the rotation requests that present the same token, at most one
\* is answered with a new token pair, and while that token is the session's
\* previous hash the session's current hash is the hash of the token that
\* request returned.
C31_SerializedRotation ==
    /\ \A r \in Clients : \A q \in Clients \ {r} :
          ~(/\ req[r].kind = "rotate" /\ req[q].kind = "rotate"
            /\ req[r].fp = req[q].fp
            /\ resp[r].t = "rotated" /\ resp[q].t = "rotated")
    /\ \A r \in Clients : \A s \in SessIds :
          (/\ req[r].kind = "rotate" /\ resp[r].t = "rotated" /\ pc[r] = "idle"
           /\ sessions[s].prev = Hash(req[r].fp))
             => sessions[s].cur = Hash(resp[r].result)

C31_Witness ==
    \E r \in Clients : \E q \in Clients \ {r} : \E s \in SessIds :
        /\ req[r].kind = "rotate" /\ req[q].kind = "rotate"
        /\ req[r].fp = req[q].fp
        /\ sessions[s].cur = Hash(req[r].fp)
        /\ pc[r] = "ok" /\ resp[r].t = "rotated" /\ s \in txSess[r].sids
        /\ pc[q] = "rlookup" /\ SessLockedByOther(q, s)

\* C32: a rotation request goes on to generate a token only from the lookup
\* step and only when the session found for the presented token is usable
\* at that moment (owner active, not revoked, neither expiry passed); a
\* token write is made only by such a request, a request that finds the
\* session not usable is rejected without a token write, and a session's
\* current hash changes only by the commit of a token write.
C32_SessionUsability ==
    [][/\ \A r \in Clients :
            /\ (pc'[r] = "rgen" /\ pc[r] # "rgen")
                  => /\ pc[r] = "rlookup"
                     /\ \E s \in SessIds : /\ Usable(s, Hash(req[r].fp))
                                           /\ txSess'[r].sids = {s}
            /\ (txSess'[r].op = "rotate" /\ txSess[r].op # "rotate")
                  => pc[r] = "rgen"
            /\ (/\ pc[r] = "rlookup" /\ pc'[r] # "rlookup"
                /\ ~\E s \in SessIds : Usable(s, Hash(req[r].fp)))
                  => (pc'[r] = "err" /\ txSess'[r].op # "rotate")
       /\ \A s \in SessIds :
            (sessions[s].user # 0 /\ sessions'[s].cur # sessions[s].cur)
               => \E r \in Clients : /\ pc[r] = "ok" /\ pc'[r] = "idle"
                                     /\ txSess[r].op = "rotate"
                                     /\ s \in txSess[r].sids]_vars

C32_Witness ==
    \E r \in Clients : \E q \in Clients \ {r} : \E s \in SessIds :
        /\ req[r].kind = "rotate" /\ pc[r] = "idle" /\ resp[r].t = "rotated"
        /\ sessions[s].cur = Hash(resp[r].result)
        /\ req[q].kind = "rotate" /\ req[q].fp = resp[r].result
        /\ pc[q] = "idle" /\ resp[q].t = "expired"
        /\ ~sessions[s].revoked

\* ------------------------------------------- refresh-token generation
\* generate_id draws from a token pool; here the pool is small enough for
\* two draws to coincide
GenTokens == 1..MaxTokens

\* uq_refresh_token_hash: a committed row other than the one request r
\* rotates already stores the hash of token t
Collides(r, t) ==
    \E s \in SessIds \ (IF txSess[r].op = "insert" THEN {} ELSE txSess[r].sids) :
        sessions[s].user # 0 /\ sessions[s].cur = Hash(t)

\* another transaction holds an uncommitted index entry for the hash of t
HashHeldByOther(r, t) ==
    \E q \in Procs \ {r} : txSess[q].op \in {"insert", "rotate"} /\ txSess[q].tok = t

\* POST /auth/login arrives
GenLoginStart(r) ==
    /\ pc[r] = "idle"
    /\ started < MaxGenStarts
    /\ nextSid + Cardinality({q \in Clients : pc[q] = "login"}) <= MaxSessions
    /\ \E u \in AuthUsers :
          req' = [req EXCEPT ![r] = [kind |-> "login", owner |-> u, fp |-> 0, amount |-> 0]]
    /\ pc' = [pc EXCEPT ![r] = "login"]
    /\ resp' = [resp EXCEPT ![r] = NoResp]
    /\ started' = started + 1
    /\ UNCHANGED <<verVars, genVars, pendingAtCall, overtaken, fpVars, readVars, insVars, recVars, dbVars, fsVars,
                   txRow, txTok, out, ran, histVars, buyVars, authVars>>

\* POST /auth/refresh arrives with some token of the pool
GenRotStart(r) ==
    /\ pc[r] = "idle"
    /\ started < MaxGenStarts
    /\ \E t \in GenTokens :
          req' = [req EXCEPT ![r] = [kind |-> "rotate", owner |-> 0, fp |-> t, amount |-> 0]]
    /\ pc' = [pc EXCEPT ![r] = "rlookup"]
    /\ resp' = [resp EXCEPT ![r] = NoResp]
    /\ started' = started + 1
    /\ UNCHANGED <<verVars, genVars, pendingAtCall, overtaken, fpVars, readVars, insVars, recVars, dbVars, fsVars,
                   txRow, txTok, out, ran, histVars, buyVars, authVars>>

\* issue_tokens: the first pass of the generation loop calls
\* insert_new_refresh_token, which only adds the object to the session and
\* cannot raise, so the loop returns at once
GenLogin(r) ==
    /\ pc[r] = "login"
    /\ IF ~active[req[r].owner]
       THEN /\ resp' = [resp EXCEPT ![r] = [t |-> "badcreds", result |-> 0, balance |-> 0]]
            /\ pc' = [pc EXCEPT ![r] = "err"]
            /\ UNCHANGED <<txSess, nextSid, attempts>>
       ELSE \E t \in GenTokens :
            /\ txSess' = [txSess EXCEPT ![r] =
                            [op |-> "insert", sids |-> {nextSid}, tok |-> t]]
            /\ nextSid' = nextSid + 1
            /\ attempts' = [attempts EXCEPT ![r] = 1]
            /\ resp' = [resp EXCEPT ![r] = [t |-> "login", result |-> t,
                                            balance |-> tokens[req[r].owner]]]
            /\ pc' = [pc EXCEPT ![r] = "ok"]
    /\ UNCHANGED <<verVars, txAborted, pendingAtCall, overtaken, fpVars, readVars, insVars, recVars, dbVars, fsVars,
                   req, txRow, txTok, out, ran, started, histVars,
                   buyVars, sessions, expiry, txActive, nextTok>>

\* one pass of the generation loop of a rotation: the UPDATE is executed at
\* once; a unique violation is caught and the loop goes on, in a
\* transaction the failed statement has aborted, where the next UPDATE
\* raises an error that is not an IntegrityError
GenRotate(r) ==
    /\ pc[r] = "rgen"
    /\ IF attempts[r] = MAX_TOKEN_GENERATION_RETRIES
       THEN /\ resp' = [resp EXCEPT ![r] = [t |-> "tokengen", result |-> 0, balance |-> 0]]
            /\ pc' = [pc EXCEPT ![r] = "err"]
            /\ UNCHANGED <<txSess, attempts, txAborted>>
       ELSE \E t \in GenTokens :
            /\ ~HashHeldByOther(r, t)
            /\ attempts' = [attempts EXCEPT ![r] = @ + 1]
            /\ IF txAborted[r]
               THEN /\ resp' = [resp EXCEPT ![r] =
                                   [t |-> "dberror", result |-> 0, balance |-> 0]]
                    /\ pc' = [pc EXCEPT ![r] = "err"]
                    /\ UNCHANGED <<txSess, txAborted>>
               ELSE IF Collides(r, t)
               THEN /\ txAborted' = [txAborted EXCEPT ![r] = TRUE]
                    /\ UNCHANGED <<txSess, resp, pc>>
               ELSE /\ txSess' = [txSess EXCEPT ![r] =
                                    [op |-> "rotate", sids |-> @.sids, tok |-> t]]
                    /\ resp' = [resp EXCEPT ![r] =
                                   [t |-> "rotated", result |-> t, balance |-> 0]]
                    /\ pc' = [pc EXCEPT ![r] = "ok"]
                    /\ UNCHANGED txAborted
    /\ UNCHANGED <<verVars, pendingAtCall, overtaken, fpVars, readVars, insVars, recVars, dbVars, fsVars,
                   req, txRow, txTok, out, ran, started, histVars,
                   buyVars, sessions, expiry, txActive, nextTok, nextSid>>

\* the INSERT of a login reaches the database when get_db commits: a
\* unique violation is raised there, outside the generation loop
GenFlushFails(r) ==
    /\ pc[r] = "ok"
    /\ txSess[r].op = "insert"
    /\ ~HashHeldByOther(r, txSess[r].tok)
    /\ Collides(r, txSess[r].tok)
    /\ resp' = [resp EXCEPT ![r] = [t |-> "integrity", result |-> 0, balance |-> 0]]
    /\ pc' = [pc EXCEPT ![r] = "err"]
    /\ UNCHANGED <<verVars, genVars, pendingAtCall, overtaken, fpVars, readVars, insVars, recVars, dbVars, fsVars,
                   req, txRow, txTok, out, ran, started, histVars, buyVars, authVars>>

\* get_db commits the request
GenCommit(r) ==
    /\ txSess[r].op = "insert"
          => (~HashHeldByOther(r, txSess[r].tok) /\ ~Collides(r, txSess[r].tok))
    /\ Commit(r)

InitGen == InitAuth

NextGen ==
    \E r \in Clients :
        \/ GenLoginStart(r)
        \/ GenLogin(r)
        \/ GenRotStart(r)
        \/ RotLookup(r)
        \/ GenRotate(r)
        \/ GenFlushFails(r)
        \/ GenCommit(r)
        \/ Rollback(r)

SpecGen == InitGen /\ [][NextGen]_vars

\* C33: token generation makes at most MAX_TOKEN_GENERATION_RETRIES
\* attempts, and a login or rotation that has got as far as generating a
\* token fails only with TokenGenerationException, after every attempt
\* collided, leaving every session row as it was.
C33_BoundedTokenGeneration ==
    [][\A r \in Clients :
          /\ attempts'[r] <= MAX_TOKEN_GENERATION_RETRIES
          /\ (/\ req[r].kind \in {"login", "rotate"}
              /\ pc[r] \in {"rgen", "ok"} /\ pc'[r] = "err")
                => /\ resp'[r].t = "tokengen"
                   /\ attempts[r] = MAX_TOKEN_GENERATION_RETRIES
          /\ (pc[r] = "err" /\ pc'[r] = "idle") => sessions' = sessions]_vars

\* C34: a training row found applied with only its temp artifact, whose
\* rename by the reconciler failed, ends the reconciliation failed with
\* neither the temp nor the final artifact on disk.
C34_ReconcilerPublishFailure ==
    recPc = "done" =>
        \A k \in TrainKeys \ recMoved :
            (/\ recFound.rows[k].status = "applied"
             /\ recFound.tmp[<<k[2], k[3]>>]
             /\ ~recFound.final[<<k[2], k[3]>>]) =>
                /\ rows[k].status = "failed"
                /\ ~tmpFile[<<k[2], k[3]>>]
                /\ ~finalFile[<<k[2], k[3]>>]

VersionRows == {k \in Keys : k[1] = "train" /\ createdAt[k] # 0 /\ active[k[2]]}
MaxCreatedAt(ks) == IF ks = {} THEN 0
                    ELSE CHOOSE t \in {createdAt[k] : k \in ks} :
                            \A k \in ks : createdAt[k] <= t
get_latest_created_at_all_users == MaxCreatedAt(VersionRows)

\* get_all_users_models: the committed rows of active users
get_all_users_models ==
    [k \in {x \in Keys : x[1] = "train"} |->
        IF active[k[2]] THEN rows[k] ELSE NoRow]

\* POST /train_model: the transaction begins (now() is its start time) and
\* inserts the pending row or restarts the failed one
VerTrainBegin(r) ==
    /\ pc[r] = "idle"
    /\ started < MaxVerStarts
    /\ \E o \in Owners, f \in FPs :
        /\ active[o]
        /\ rows[<<"train", o, f>>].status \in {"none", "failed"}
        /\ req' = [req EXCEPT ![r] = [kind |-> "train", owner |-> o, fp |-> f, amount |-> 0]]
        /\ ~\E q \in Procs \ {r} : txRow[q] # NoWrite /\ req[q].owner = o /\ req[q].fp = f
        /\ txRow' = [txRow EXCEPT ![r] = RestartedRow("train", rows[<<"train", o, f>>])]
    /\ clock' = clock + 1
    /\ txNow' = [txNow EXCEPT ![r] = clock + 1]
    /\ pc' = [pc EXCEPT ![r] = "vtrain"]
    /\ started' = started + 1
    /\ UNCHANGED <<createdAt, genVars, pendingAtCall, overtaken, fpVars, readVars, insVars, recVars,
                   dbVars, fsVars, txTok, out, ran, resp, histVars, buyVars, authVars>>

\* the training ends applied and get_db commits: a new row is stored with
\* created_at = now() of its transaction, a restarted row keeps the
\* created_at it had
VerTrainCommit(r) ==
    /\ pc[r] = "vtrain"
    /\ \E res \in Results :
          rows' = [rows EXCEPT ![KeyOf(r)] = [status |-> "applied", result |-> res]]
    /\ createdAt' = [createdAt EXCEPT ![KeyOf(r)] = IF @ = 0 THEN txNow[r] ELSE @]
    /\ txRow' = [txRow EXCEPT ![r] = NoWrite]
    /\ pc' = [pc EXCEPT ![r] = "idle"]
    /\ UNCHANGED <<clock, txNow, genVars, pendingAtCall, overtaken, fpVars, readVars, insVars, recVars,
                   tokens, fsVars, req, txTok, out, ran, resp, started, histVars, buyVars, authVars>>

\* the training fails and get_db rolls the request back
VerTrainFail(r) ==
    /\ pc[r] = "vtrain"
    /\ txRow' = [txRow EXCEPT ![r] = NoWrite]
    /\ pc' = [pc EXCEPT ![r] = "idle"]
    /\ UNCHANGED <<verVars, genVars, pendingAtCall, overtaken, fpVars, readVars, insVars, recVars,
                   dbVars, fsVars, req, txTok, out, ran, resp, started, histVars, buyVars, authVars>>

\* DELETE /user: soft delete, is_active = False, committed
VerDeleteUser(o) ==
    /\ active[o]
    /\ ~\E q \in Procs : pc[q] = "vtrain" /\ req[q].owner = o
    /\ active' = [active EXCEPT ![o] = FALSE]
    /\ UNCHANGED <<verVars, genVars, pendingAtCall, overtaken, fpVars, readVars, insVars, recVars,
                   dbVars, fsVars, pc, req, txRow, txTok, out, ran, resp, started, histVars,
                   credits, txCredit, creditCount, first, spent, credited, authVars>>

InitVer ==
    /\ fpIn = [i \in 1..2 |-> NoFpInput]
    /\ fpDig = [i \in 1..2 |-> NoDigest]
    /\ tokens = [o \in Owners |-> 0] /\ tokens0 = tokens
    /\ dbVer = 0
    /\ redisVer = 0
    /\ listCached = FALSE
    /\ seen = [o \in Owners |-> 0]
    /\ charges = [c \in Owners \X Versions |-> 0]
    /\ \E st \in [Keys -> {"none", "failed", "applied"}] :
          /\ \A k \in Keys : k[1] # "train" => st[k] = "none"
          /\ rows = [k \in Keys |-> InitRow(st[k])]
    /\ tmpFile = [f \in Owners \X FPs |-> FALSE]
    /\ finalFile = [f \in Owners \X FPs |-> FALSE]
    /\ pc = [r \in Procs |-> "idle"]
    /\ req = [r \in Procs |-> NoReq]
    /\ txRow = [r \in Procs |-> NoWrite]
    /\ txTok = [r \in Procs |-> NoTok]
    /\ out = [r \in Procs |-> 0]
    /\ ran = [r \in Procs |-> FALSE]
    /\ resp = [r \in Procs |-> NoResp]
    /\ started = 0
    /\ debited = [k \in Keys |-> 0]
    /\ applyCount = [k \in Keys |-> 0]
    /\ active = [o \in Owners |-> TRUE]
    /\ credits = [c \in CreditKeys |-> NoCredit]
    /\ txCredit = [r \in Procs |-> NoCreditWrite]
    /\ creditCount = [c \in CreditKeys |-> 0]
    /\ first = [c \in CreditKeys |-> NoResp]
    /\ spent = [o \in Owners |-> 0]
    /\ credited = [o \in Owners |-> 0]
    /\ sessions = [s \in SessIds |-> NoSession]
    /\ expiry = [s \in SessIds |-> NoExpiry]
    /\ txSess = [r \in Procs |-> NoSessWrite]
    /\ txActive = [r \in Procs |-> FALSE]
    /\ nextTok = 1
    /\ nextSid = 1
    /\ recPc = "done"
    /\ recBegun = FALSE
    /\ recTodo = {}
    /\ recWrites = {}
    /\ recPending0 = {}
    /\ recMoved = {}
    /\ recFound = [rows |-> rows, tmp |-> tmpFile, final |-> finalFile]
    /\ crashes = 0
    /\ rowCount = [k \in Keys |-> 0]
    /\ txIns = [r \in Procs |-> FALSE]
    /\ pendingAtCall = [r \in Procs |-> FALSE]
    /\ overtaken = [r \in Procs |-> FALSE]
    /\ attempts = [r \in Procs |-> 0]
    /\ txAborted = [r \in Procs |-> FALSE]
    /\ createdAt = [k \in Keys |-> IF rows[k].status = "none" THEN 0 ELSE k[2]]
    /\ clock = Cardinality(Owners)
    /\ txNow = [r \in Procs |-> 0]

NextVer ==
    \/ \E r \in Workers : VerTrainBegin(r) \/ VerTrainCommit(r) \/ VerTrainFail(r)
    \/ \E o \in Owners : VerDeleteUser(o)

SpecVer == InitVer /\ [][NextVer]_vars

\* C36: every step that changes what the all-users listing shows changes
\* the dataset version max(created_at) over the rows of active users.
C36_VersionBump ==
    [][get_all_users_models' # get_all_users_models
          => get_latest_created_at_all_users' # get_latest_created_at_all_users]_vars

\* ------------------------------------------------- two owners at work
\* POST /train_model or /predict (its model loaded) arrives from any owner,
\* on the lowest free worker
IsoStart(r) ==
    /\ pc[r] = "idle"
    /\ recPc = "done"
    /\ started < MaxIsoStarts
    /\ \A q \in Workers : q < r => pc[q] # "idle"
    /\ \E k \in Kinds, o \in Owners, f \in FPs :
          req' = [req EXCEPT ![r] = [kind |-> k, owner |-> o, fp |-> f, amount |-> 0]]
    /\ pc' = [pc EXCEPT ![r] = "insert"]
    /\ resp' = [resp EXCEPT ![r] = NoResp]
    /\ started' = started + 1
    /\ out' = [out EXCEPT ![r] = 0]
    /\ ran' = [ran EXCEPT ![r] = FALSE]
    /\ UNCHANGED <<verVars, genVars, pendingAtCall, overtaken, fpVars, readVars, insVars, recVars,
                   dbVars, fsVars, txRow, txTok, histVars, buyVars, authVars>>

InitIso ==
    /\ InitOps
    /\ \A k \in Keys : k[1] = "pred" => rows[k].status = "none"

NextIso ==
    \E r \in Workers :
        \/ IsoStart(r)
        \/ TryInsertPending(r)
        \/ Lookup(r)
        \/ Replay(r)
        \/ RestartExistingRow(r)
        \/ ComputeStart(r)
        \/ ComputeOk(r)
        \/ ComputeFail(r)
        \/ Charge(r)
        \/ MarkApplied(r)
        \/ PublishOk(r)
        \/ PublishFail(r)
        \/ Commit(r)
        \/ Rollback(r)

SpecIso == InitIso /\ [][NextIso]_vars

\* what the database and the disk hold for owner o
OwnerState(o) ==
    <<[k \in {x \in Keys : x[2] = o} |-> rows[k]], tokens[o],
      [f \in FPs |-> <<tmpFile[<<o, f>>], finalFile[<<o, f>>]>>]>>

\* C37: a step changes the rows, the balance and the artifact files of an
\* owner only if it is a step of a request of that owner; a request whose
\* owner has no row for the fingerprint gets its own row whatever rows
\* other owners have for it; every row is inserted and debited at most
\* once.
C37_OwnerIsolation ==
    /\ [][/\ \A o \in Owners :
                OwnerState(o)' # OwnerState(o)
                   => \E r \in Workers : pc'[r] # pc[r] /\ req[r].owner = o
          /\ \A r \in Workers :
                (/\ pc[r] = "insert" /\ pc'[r] # "insert"
                 /\ rows[KeyOf(r)].status = "none")
                   => (pc'[r] = "compute" /\ txRow'[r].status = "pending"
                       /\ txIns'[r])]_vars
    /\ [](\A k \in Keys : debited[k] <= 1 /\ rowCount[k] <= 1)

C37_Witness ==
    \E r \in Workers : \E q \in Workers \ {r} :
        /\ req[r].kind = "train" /\ req[q].kind = "train"
        /\ req[r].owner # req[q].owner /\ req[r].fp = req[q].fp
        /\ pc[r] = "idle" /\ resp[r].t = "charged"
        /\ rows[KeyOf(r)].status = "applied" /\ debited[KeyOf(r)] = 1
        /\ finalFile[FileOf(r)]
        /\ pc[q] = "charge" /\ ran[q] /\ txIns[q]
        /\ tmpFile[FileOf(q)] /\ ~finalFile[FileOf(q)]

====
